---- MODULE Spec2Model ----
(***************************************************************************)
(* Model of the tensor-component engine of                                 *)
(* src/src/sage/geometry/manifolds/comp.py: the classes Components,        *)
(* CompWithSym, CompFullySym and CompFullyAntiSym.                         *)
(*                                                                         *)
(* A store is a record                                                     *)
(*   oid     object identity (Python `is`)                                 *)
(*   cls     the Python class of the object                                *)
(*   ring    the coefficient ring, Z/ring (5: a field, 4: zero divisors)   *)
(*   frame   the frame; dim = len(frame)                                   *)
(*   nid     number of indices                                             *)
(*   sindex  start index                                                   *)
(*   fmt     output_formatter                                              *)
(*   sym, antisym   lists of groups of 0-based index positions             *)
(*   comp    the dictionary _comp: index tuple -> ring element             *)
(*                                                                         *)
(* The exceptions of the code are named by the error kind they stand for:  *)
(*   TypeError("Wrong number of indices"), IndexError("Index out of        *)
(*     range")                                    -> "IndexOutOfRange"     *)
(*   ValueError("By antisymmetry ...")            -> "AntisymmetryConflict"*)
(*   IndexError of CompWithSym.__init__           -> "InvalidSymmetrySpec" *)
(*   TypeError of the binary operators            -> "IncompatibleOperands"*)
(*   every other exception keeps its Python name.                          *)
(***************************************************************************)
EXTENDS Integers, Sequences, FiniteSets, TLC

VARIABLES a, b, r, ret, op, nsets, nops

vars == <<a, b, r, ret, op, nsets, nops>>

-----------------------------------------------------------------------------
(* Bounds of the model *)

\* number of __setitem__ calls explored in one behaviour
MaxSets == 2

\* values handed to __setitem__ are the integers 0..MaxVal, which the
\* store converts into its ring
MaxVal == 4

\* number of operations (other than __setitem__) explored in one behaviour
\* of the specification Spec
MaxOps == 1

\* writes of a behaviour of SpecZero: those that fill the operands and those
\* to the product
MaxWrites == 5

-----------------------------------------------------------------------------
(* The ring collaborator: Z/m *)

Rings == {4, 5}

RingElems(m) == 0 .. (m - 1)

\* self.ring(value)
Coerce(m, v) == v % m

RAdd(m, x, y) == (x + y) % m

RNeg(m, x) == (m - (x % m)) % m

RSub(m, x, y) == RAdd(m, x, RNeg(m, y))

RMul(m, x, y) == (x * y) % m

IsUnit(m, y) == \E z \in RingElems(m) : RMul(m, y, z) = 1

\* x / y for a unit y
RDiv(m, x, y) == RMul(m, x, CHOOSE z \in RingElems(m) : RMul(m, y, z) = 1)

-----------------------------------------------------------------------------
(* The frame collaborator *)

Frames == {"e", "f", "g", "u", "z"}

\* len(frame)
FrameLen(fr) ==
    IF fr = "g" THEN 3 ELSE IF fr = "u" THEN 1 ELSE IF fr = "z" THEN 0 ELSE 2

Dim(st) == FrameLen(st.frame)

-----------------------------------------------------------------------------
(* Sequences, as Python lists and tuples *)

Range(s) == {s[i] : i \in DOMAIN s}

Front(s) == SubSeq(s, 1, Len(s) - 1)

\* sorted(s)
Sorted(s) == SortSeq(s, LAMBDA x, y : x < y)

\* s.index(x), 0-based
IndexOf(s, x) == (CHOOSE i \in DOMAIN s : s[i] = x /\ \A j \in 1 .. (i - 1) : s[j] # x) - 1

\* lexicographic order on tuples of the same length
LexLess(s, t) ==
    \E i \in DOMAIN s :
        /\ i \in DOMAIN t
        /\ s[i] < t[i]
        /\ \A j \in 1 .. (i - 1) : s[j] = t[j]

RECURSIVE KeySeq(_)
\* the keys of a dictionary in the order the model visits them (ascending)
KeySeq(S) ==
    IF S = {} THEN <<>>
    ELSE LET m == CHOOSE x \in S : \A y \in S : x = y \/ LexLess(x, y)
         IN  <<m>> \o KeySeq(S \ {m})

EmptyComp == [k \in {} |-> 0]

\* self._comp[ind] = val
Put(comp, ind, val) == [k \in (DOMAIN comp) \cup {ind} |-> IF k = ind THEN val ELSE comp[k]]

\* del self._comp[ind]
Del(comp, ind) == [k \in (DOMAIN comp) \ {ind} |-> comp[k]]

-----------------------------------------------------------------------------
(* Results of a call: a returned store, a returned value, or an exception *)

NoStore == [oid |-> 0, cls |-> "None", ring |-> 5, frame |-> "e", nid |-> 0,
            sindex |-> 0, fmt |-> "None", sym |-> <<>>, antisym |-> <<>>,
            comp |-> EmptyComp]

OkStore(st) == [err |-> "", kind |-> "store", st |-> st, val |-> 0]

OkVal(v) == [err |-> "", kind |-> "value", st |-> NoStore, val |-> v]

OkBool(bv) == [err |-> "", kind |-> "bool", st |-> NoStore, val |-> IF bv THEN 1 ELSE 0]

Raise(e) == [err |-> e, kind |-> "error", st |-> NoStore, val |-> 0]

-----------------------------------------------------------------------------
(* Components.__init__ and CompWithSym.__init__ *)

Components_init(oid, ring, frame, nid, sindex, fmt) ==
    [oid |-> oid, cls |-> "Components", ring |-> ring, frame |-> frame,
     nid |-> nid, sindex |-> sindex, fmt |-> fmt, sym |-> <<>>,
     antisym |-> <<>>, comp |-> EmptyComp]

\* for isym in sym: the two checks of one group
GroupError(isym, nid) ==
    \/ Len(isym) < 2
    \/ \E k \in DOMAIN isym : isym[k] < 0 \/ isym[k] > nid - 1

\* index_list += isym, over self.sym then self.antisym
RECURSIVE Concat(_)
Concat(groups) ==
    IF groups = <<>> THEN <<>> ELSE Head(groups) \o Concat(Tail(groups))

ConsistencyError_nocheck(sym, antisym) == FALSE

\* len(index_list) != len(set(index_list))
ConsistencyError(sym, antisym) ==
    LET index_list == Concat(sym) \o Concat(antisym)
    IN  Len(index_list) # Cardinality(Range(index_list))

\* The sym / antisym argument of CompWithSym.__init__ is None or [] (no
\* group), a list of groups, or a single group given as a flat tuple or
\* list of positions: `isinstance(sym[0], (int, Integer))` tells the last
\* two apart.  An argument is [form, v]: for form "list" v is the list of
\* groups, for form "flat" v[1] is the flat tuple of positions.
NoGroups == [form |-> "list", v |-> <<>>]

GroupList(l) == [form |-> "list", v |-> l]

FlatGroup(g) == IF g = <<>> THEN NoGroups ELSE [form |-> "flat", v |-> <<g>>]

\* sym = [tuple(sym)] for a flat argument
Groups(arg) == IF arg.form = "flat" THEN <<arg.v[1]>> ELSE arg.v

CompWithSym_init(cls, oid, ring, frame, nid, sindex, fmt, symarg, antisymarg) ==
    LET sym == Groups(symarg)
        antisym == Groups(antisymarg)
    IN  IF \E k \in DOMAIN sym : GroupError(sym[k], nid)
        THEN Raise("InvalidSymmetrySpec")
        ELSE IF \E k \in DOMAIN antisym : GroupError(antisym[k], nid)
        THEN Raise("InvalidSymmetrySpec")
        ELSE IF ConsistencyError(sym, antisym)
        THEN Raise("InvalidSymmetrySpec")
        ELSE OkStore([oid |-> oid, cls |-> cls, ring |-> ring, frame |-> frame,
                      nid |-> nid, sindex |-> sindex, fmt |-> fmt, sym |-> sym,
                      antisym |-> antisym, comp |-> EmptyComp])

RECURSIVE PyRange(_)
\* range(nb_indices)
PyRange(n) == IF n <= 0 THEN <<>> ELSE PyRange(n - 1) \o <<n - 1>>

\* sym=range(nb_indices)
CompFullySym_init(oid, ring, frame, nid, sindex, fmt) ==
    CompWithSym_init("CompFullySym", oid, ring, frame, nid, sindex, fmt,
                     FlatGroup(PyRange(nid)), NoGroups)

\* antisym=range(nb_indices)
CompFullyAntiSym_init(oid, ring, frame, nid, sindex, fmt) ==
    CompWithSym_init("CompFullyAntiSym", oid, ring, frame, nid, sindex, fmt,
                     NoGroups, FlatGroup(PyRange(nid)))

IsWithSym(st) == st.cls \in {"CompWithSym", "CompFullySym", "CompFullyAntiSym"}

\* self._new_instance(), of each class
new_instance(st, oid) ==
    IF st.cls = "Components"
    THEN Components_init(oid, st.ring, st.frame, st.nid, st.sindex, st.fmt)
    ELSE IF st.cls = "CompFullySym"
    THEN CompFullySym_init(oid, st.ring, st.frame, st.nid, st.sindex, st.fmt).st
    ELSE IF st.cls = "CompFullyAntiSym"
    THEN CompFullyAntiSym_init(oid, st.ring, st.frame, st.nid, st.sindex, st.fmt).st
    ELSE CompWithSym_init("CompWithSym", oid, st.ring, st.frame, st.nid,
                          st.sindex, st.fmt, GroupList(st.sym),
                          GroupList(st.antisym)).st

-----------------------------------------------------------------------------
(* Index checking and canonicalization *)

IndexResult(e, sg, ind) == [err |-> e, sign |-> sg, ind |-> ind]

\* the key None, which no dictionary holds
NoneKey == <<>>

check_indices_norange(st, indices) ==
    IF Len(indices) # st.nid
    THEN IndexResult("IndexOutOfRange", 1, NoneKey)
    ELSE IndexResult("", 1, indices)

\* Components._check_indices
check_indices(st, indices) ==
    LET si == st.sindex
        imax == Dim(st) - 1 + si
    IN  IF Len(indices) # st.nid
        THEN IndexResult("IndexOutOfRange", 1, NoneKey)
        ELSE IF \E k \in 1 .. st.nid : indices[k] < si \/ indices[k] > imax
        THEN IndexResult("IndexOutOfRange", 1, NoneKey)
        ELSE IndexResult("", 1, indices)

RECURSIVE Pick(_, _)
\* indsym = [ind[pos] for pos in isym]
Pick(ind, isym) ==
    IF isym = <<>> THEN <<>> ELSE <<ind[Head(isym) + 1]>> \o Pick(ind, Tail(isym))

RECURSIVE WriteBack(_, _, _, _)
\* for k, pos in enumerate(isym): ind[pos] = indsym_ordered[k]
WriteBack(ind, isym, ordered, k) ==
    IF k > Len(isym) THEN ind
    ELSE WriteBack([ind EXCEPT ![isym[k] + 1] = ordered[k]], isym, ordered, k + 1)

OrderSym_keep(ind, sym) == ind

RECURSIVE OrderSym(_, _)
\* the loop `for isym in self.sym` of _ordered_indices
OrderSym(ind, sym) ==
    IF sym = <<>> THEN ind
    ELSE OrderSym(WriteBack(ind, Head(sym), Sorted(Pick(ind, Head(sym))), 1), Tail(sym))

\* Permutation(perm).signature(): the parity of the number of inversions
Signature(perm) ==
    LET inv == {pq \in (DOMAIN perm) \X (DOMAIN perm) :
                    pq[1] < pq[2] /\ perm[pq[1]] > perm[pq[2]]}
    IN  IF Cardinality(inv) % 2 = 0 THEN 1 ELSE -1

RECURSIVE SortingPerm(_, _)
\* perm = [indsym.index(i) + 1 for i in indsym_ordered]
SortingPerm(indsym, ordered) ==
    IF ordered = <<>> THEN <<>>
    ELSE <<IndexOf(indsym, Head(ordered)) + 1>> \o SortingPerm(indsym, Tail(ordered))

GroupSign_nosign(indsym) == 1

\* the sign one antisymmetric group contributes
GroupSign(indsym) ==
    IF Sorted(indsym) # indsym
    THEN Signature(SortingPerm(indsym, Sorted(indsym)))
    ELSE 1

HasRepeat_never(indsym) == FALSE

\* len(indsym) != len(set(indsym))
HasRepeat(indsym) == Len(indsym) # Cardinality(Range(indsym))

RECURSIVE OrderAntisym(_, _, _)
\* the loop `for isym in self.antisym` of _ordered_indices
OrderAntisym(ind, sign, antisym) ==
    IF antisym = <<>> THEN IndexResult("", sign, ind)
    ELSE LET isym == Head(antisym)
             indsym == Pick(ind, isym)
         IN  IF HasRepeat(indsym)
             THEN IndexResult("", 0, NoneKey)
             ELSE OrderAntisym(WriteBack(ind, isym, Sorted(indsym), 1),
                               sign * GroupSign(indsym), Tail(antisym))

\* CompWithSym._ordered_indices
ordered_indices(st, indices) ==
    LET chk == check_indices(st, indices)
    IN  IF chk.err # "" THEN chk
        ELSE OrderAntisym(OrderSym(chk.ind, st.sym), 1, st.antisym)

-----------------------------------------------------------------------------
(* __getitem__ and __setitem__ *)

\* The forms of a subscript: "tuple" is c[i,j,...] (or c[i]), "list" is
\* c[[i,j,...]] or c[[(i,j,...)]], "nested" is c[[L]] with L a Python list.
Forms == {"tuple", "list", "nested"}

\* The branch of __getitem__ that finds the indices in args.  A subscript
\* tuple whose length is not nid gives its last item to format_type.
GetIndices(st, args, form) ==
    IF args = <<>> THEN IndexResult("IndexOutOfRange", 1, NoneKey)
    ELSE IF form = "nested" THEN IndexResult("IndexOutOfRange", 1, NoneKey)
    ELSE IF form = "list" THEN IndexResult("", 1, args)
    ELSE IF Len(args) = st.nid THEN IndexResult("", 1, args)
    ELSE IndexResult("", 1, Front(args))

\* The branch of __setitem__ that finds the indices
SetIndices(st, args, form) ==
    IF form = "list" /\ args = <<>> THEN IndexResult("IndexOutOfRange", 1, NoneKey)
    ELSE IF form = "nested" THEN IndexResult("IndexOutOfRange", 1, NoneKey)
    ELSE IndexResult("", 1, args)

\* the value of -x in the ring, for sign = -1
Signed(m, sign, x) == IF sign = 1 THEN x ELSE RNeg(m, x)

\* Components.__getitem__, CompWithSym.__getitem__, CompFullySym.__getitem__
\* (no_format: the value is returned as stored)
getitem(st, args, form) ==
    LET got == GetIndices(st, args, form)
    IN  IF got.err # "" THEN Raise(got.err)
        ELSE IF st.cls = "Components"
        THEN LET chk == check_indices(st, got.ind)
             IN  IF chk.err # "" THEN Raise(chk.err)
                 ELSE IF chk.ind \in DOMAIN st.comp
                 THEN OkVal(st.comp[chk.ind])
                 ELSE OkVal(0)
        ELSE LET oi == ordered_indices(st, got.ind)
             IN  IF oi.err # "" THEN Raise(oi.err)
                 ELSE IF st.cls = "CompFullySym"
                 THEN IF oi.ind \in DOMAIN st.comp
                      THEN OkVal(st.comp[oi.ind])
                      ELSE OkVal(0)
                 ELSE IF oi.sign = 0 \/ oi.ind \notin DOMAIN st.comp
                 THEN OkVal(0)
                 ELSE OkVal(Signed(st.ring, oi.sign, st.comp[oi.ind]))

\* self[[ind]] with ind a tuple
Get(st, ind) == getitem(st, ind, "list").val

\* if value == 0: delete the key if present; else: store the ring value
StoreValue(comp, ind, value, ringval) ==
    IF value = 0
    THEN IF ind \in DOMAIN comp THEN Del(comp, ind) ELSE comp
    ELSE Put(comp, ind, ringval)

\* Components.__setitem__, CompWithSym.__setitem__, CompFullySym.__setitem__
setitem(st, args, form, value) ==
    LET got == SetIndices(st, args, form)
    IN  IF got.err # "" THEN Raise(got.err)
        ELSE IF st.cls = "Components"
        THEN LET chk == check_indices(st, got.ind)
             IN  IF chk.err # "" THEN Raise(chk.err)
                 ELSE OkStore([st EXCEPT !.comp =
                          StoreValue(@, chk.ind, value, Coerce(st.ring, value))])
        ELSE LET oi == ordered_indices(st, got.ind)
             IN  IF oi.err # "" THEN Raise(oi.err)
                 ELSE IF st.cls = "CompFullySym"
                 THEN OkStore([st EXCEPT !.comp =
                          StoreValue(@, oi.ind, value, Coerce(st.ring, value))])
                 ELSE IF oi.sign = 0
                 THEN IF value # 0 THEN Raise("AntisymmetryConflict")
                      ELSE OkStore([st EXCEPT !.comp =
                               IF oi.ind \in DOMAIN @ THEN Del(@, oi.ind) ELSE @])
                 ELSE OkStore([st EXCEPT !.comp =
                          StoreValue(@, oi.ind, value,
                              Signed(st.ring, oi.sign, Coerce(st.ring, value)))])

\* self[[ind]] = value with ind a tuple
Set(st, ind, value) == setitem(st, ind, "list", value).st

-----------------------------------------------------------------------------
(* Index generators *)

\* an odometer that steps its last wheel only
Odometer_nocarry(ind, pos, carry, si, imax) ==
    IF ind[pos + 1] # imax THEN [ind EXCEPT ![pos + 1] = @ + 1]
    ELSE [k \in DOMAIN ind |-> IF k = 1 THEN imax + 1 ELSE si]

RECURSIVE Odometer(_, _, _, _, _)
\* one pass of `for pos in range(self.nid-1,-1,-1)` over ind, with carry ret
Odometer(ind, pos, carry, si, imax) ==
    IF pos < 0 THEN ind
    ELSE IF ind[pos + 1] # imax
    THEN Odometer([ind EXCEPT ![pos + 1] = @ + carry], pos - 1, 0, si, imax)
    ELSE IF carry = 1
    THEN IF pos = 0
         THEN Odometer([ind EXCEPT ![pos + 1] = imax + 1], pos - 1, carry, si, imax)
         ELSE Odometer([ind EXCEPT ![pos + 1] = si], pos - 1, 1, si, imax)
    ELSE Odometer(ind, pos - 1, carry, si, imax)

RECURSIVE Repeat(_, _)
\* [x for k in range(n)]
Repeat(x, n) == IF n <= 0 THEN <<>> ELSE <<x>> \o Repeat(x, n - 1)

\* ind_end: [si, ..., si] with ind_end[0] = imax + 1
IndEnd(st) == [Repeat(st.sindex, st.nid) EXCEPT ![1] = Dim(st) + st.sindex]

IsOrdered_always(st, ind) == TRUE

\* `ordered` in non_redundant_index_generator
IsOrdered(st, ind) ==
    /\ \A g \in DOMAIN st.sym : \A k \in 1 .. (Len(st.sym[g]) - 1) :
           ~(ind[st.sym[g][k + 1] + 1] < ind[st.sym[g][k] + 1])
    /\ \A g \in DOMAIN st.antisym : \A k \in 1 .. (Len(st.antisym[g]) - 1) :
           ~(ind[st.antisym[g][k + 1] + 1] <= ind[st.antisym[g][k] + 1])

RECURSIVE Generate(_, _, _)
\* the while loop of the two generators: the tuples yielded from ind on
Generate(st, ind, filtered) ==
    IF ind = IndEnd(st) THEN <<>>
    ELSE (IF filtered /\ ~IsOrdered(st, ind) THEN <<>> ELSE <<ind>>)
         \o Generate(st, Odometer(ind, st.nid - 1, 1, st.sindex, Dim(st) - 1 + st.sindex),
                     filtered)

\* Components.index_generator
index_generator(st) == Generate(st, Repeat(st.sindex, st.nid), FALSE)

\* Components.non_redundant_index_generator and
\* CompWithSym.non_redundant_index_generator
non_redundant_index_generator(st) ==
    Generate(st, Repeat(st.sindex, st.nid), IsWithSym(st))

-----------------------------------------------------------------------------
(* Copy, negation, zero test *)

copy_alias(st, oid) == st

\* Components.copy: the values of the ring are immutable
copy(st, oid) == [new_instance(st, oid) EXCEPT !.comp = st.comp]

\* Components.__pos__
unary_pos(st, oid) == copy(st, oid)

\* Components.__neg__
neg(st, oid) ==
    [new_instance(st, oid) EXCEPT
        !.comp = [k \in DOMAIN st.comp |-> RNeg(st.ring, st.comp[k])]]

is_zero_empty(st) == st.comp = EmptyComp

\* Components.is_zero
is_zero(st) ==
    IF st.comp = EmptyComp THEN TRUE
    ELSE \A k \in DOMAIN st.comp : ~(st.comp[k] # 0)

-----------------------------------------------------------------------------
(* Swap of two adjacent sets of indices *)

\* ind[:pos1] + ind[pos2:pos3] + ind[pos1:pos2] + ind[pos3:]
SwapSlices(ind, pos1, pos2, pos3) ==
    SubSeq(ind, 1, pos1) \o SubSeq(ind, pos2 + 1, pos3)
        \o SubSeq(ind, pos1 + 1, pos2) \o SubSeq(ind, pos3 + 1, Len(ind))

NewPosition_zero(new_lpos, pos) == 0

\* new_lpos.index(pos)
NewPosition(new_lpos, pos) == IndexOf(new_lpos, pos)

\* tuple(sorted([new_lpos.index(pos) for pos in s])), for every s in groups
SwapGroups(groups, new_lpos) ==
    [g \in DOMAIN groups |->
        Sorted([k \in DOMAIN groups[g] |-> NewPosition(new_lpos, groups[g][k])])]

RECURSIVE SwapInto(_, _, _, _, _, _)
\* for ind, val in self._comp.items(): result[new_ind] = val
SwapInto(res, self, keys, pos1, pos2, pos3) ==
    IF res.err # "" \/ keys = <<>> THEN res
    ELSE SwapInto(setitem(res.st, SwapSlices(Head(keys), pos1, pos2, pos3), "tuple",
                          self.comp[Head(keys)]),
                  self, Tail(keys), pos1, pos2, pos3)

\* Components.swap_adjacent_indices, which writes result._comp directly, and
\* CompWithSym.swap_adjacent_indices, which moves the groups and writes
\* through __setitem__
swap_adjacent_indices(self, pos1, pos2, pos3, oid) ==
    IF ~IsWithSym(self)
    THEN OkStore([new_instance(self, oid) EXCEPT
             !.comp = [k \in {SwapSlices(i, pos1, pos2, pos3) : i \in DOMAIN self.comp} |->
                          self.comp[CHOOSE i \in DOMAIN self.comp :
                                        SwapSlices(i, pos1, pos2, pos3) = k]]])
    ELSE LET new_lpos == SwapSlices(PyRange(self.nid), pos1, pos2, pos3)
         IN  SwapInto(OkStore([new_instance(self, oid) EXCEPT
                          !.sym = SwapGroups(self.sym, new_lpos),
                          !.antisym = SwapGroups(self.antisym, new_lpos)]),
                      self, KeySeq(DOMAIN self.comp), pos1, pos2, pos3)

-----------------------------------------------------------------------------
(* Addition and subtraction *)

\* the three checks of the binary operators, in the order of the code:
\* "" or the error raised
AddMismatch(self, other) ==
    IF other.frame # self.frame THEN "IncompatibleOperands"
    ELSE IF other.nid # self.nid THEN "IncompatibleOperands"
    ELSE IF other.sindex # self.sindex THEN "IncompatibleOperands"
    ELSE ""

RECURSIVE AddInto(_, _, _)
\* for ind, val in other._comp.items(): result[[ind]] += val
AddInto(res, other, keys) ==
    IF res.err # "" \/ keys = <<>> THEN res
    ELSE LET ind == Head(keys)
             got == getitem(res.st, ind, "list")
         IN  IF got.err # "" THEN Raise(got.err)
             ELSE AddInto(setitem(res.st, ind, "list",
                                  RAdd(res.st.ring, got.val, other.comp[ind])),
                          other, Tail(keys))

RECURSIVE AddEach(_, _, _, _)
\* for ind in result.non_redundant_index_generator():
\*     result[[ind]] = self[[ind]] + other[[ind]]
AddEach(res, self, other, inds) ==
    IF res.err # "" \/ inds = <<>> THEN res
    ELSE LET ind == Head(inds)
             gs == getitem(self, ind, "list")
             go == getitem(other, ind, "list")
         IN  IF gs.err # "" THEN Raise(gs.err)
             ELSE IF go.err # "" THEN Raise(go.err)
             ELSE AddEach(setitem(res.st, ind, "list",
                                  RAdd(self.ring, gs.val, go.val)),
                          self, other, Tail(inds))

RECURSIVE SetSeq(_)
\* tuple(s) for a set s of small non-negative integers: ascending
SetSeq(S) ==
    IF S = {} THEN <<>>
    ELSE LET m == CHOOSE x \in S : \A y \in S : x <= y
         IN  <<m>> \o SetSeq(S \ {m})

RECURSIVE CommonWith(_, _)
\* for osym in other.sym: com = tuple(set(isym).intersection(set(osym)))
CommonWith(isym, ogroups) ==
    IF ogroups = <<>> THEN <<>>
    ELSE LET com == SetSeq(Range(isym) \cap Range(Head(ogroups)))
         IN  (IF Len(com) > 1 THEN <<com>> ELSE <<>>)
                 \o CommonWith(isym, Tail(ogroups))

RECURSIVE Common(_, _)
\* common_sym, common_antisym
Common(sgroups, ogroups) ==
    IF sgroups = <<>> THEN <<>>
    ELSE CommonWith(Head(sgroups), ogroups) \o Common(Tail(sgroups), ogroups)

\* CompWithSym.__add__
CompWithSym_add(self, other, oid) ==
    IF is_zero(other) THEN OkStore(unary_pos(self, oid))
    ELSE IF AddMismatch(self, other) # "" THEN Raise(AddMismatch(self, other))
    ELSE IF IsWithSym(other)
              /\ Range(self.sym) = Range(other.sym)
              /\ Range(self.antisym) = Range(other.antisym)
    THEN AddInto(OkStore(copy(self, oid)), other, KeySeq(DOMAIN other.comp))
    ELSE LET common_sym ==
                 IF IsWithSym(other) THEN Common(self.sym, other.sym) ELSE <<>>
             common_antisym ==
                 IF IsWithSym(other) THEN Common(self.antisym, other.antisym)
                 ELSE <<>>
             result ==
                 IF common_sym # <<>> \/ common_antisym # <<>>
                 THEN CompWithSym_init("CompWithSym", oid, self.ring, self.frame,
                                       self.nid, self.sindex, self.fmt,
                                       GroupList(common_sym),
                                       GroupList(common_antisym))
                 ELSE OkStore(Components_init(oid, self.ring, self.frame,
                                              self.nid, self.sindex, self.fmt))
         IN  IF result.err # "" THEN result
             ELSE AddEach(result, self, other,
                          non_redundant_index_generator(result.st))

\* CompFullySym.__add__ and CompFullyAntiSym.__add__
CompFully_add(self, other, oid) ==
    IF is_zero(other) THEN OkStore(unary_pos(self, oid))
    ELSE IF other.cls = self.cls
    THEN IF AddMismatch(self, other) # "" THEN Raise(AddMismatch(self, other))
         ELSE AddInto(OkStore(copy(self, oid)), other, KeySeq(DOMAIN other.comp))
    ELSE CompWithSym_add(self, other, oid)

\* self + other for a receiver with symmetries
WithSym_add(self, other, oid) ==
    IF self.cls \in {"CompFullySym", "CompFullyAntiSym"}
    THEN CompFully_add(self, other, oid)
    ELSE CompWithSym_add(self, other, oid)

\* self + other: Components.__add__ for a plain receiver, else the __add__ of
\* the receiver's class
add(self, other, oid) ==
    IF IsWithSym(self) THEN WithSym_add(self, other, oid)
    ELSE IF is_zero(other) THEN OkStore(unary_pos(self, oid))
    ELSE IF IsWithSym(other) THEN WithSym_add(other, self, oid)
    ELSE IF AddMismatch(self, other) # "" THEN Raise(AddMismatch(self, other))
    ELSE AddInto(OkStore(copy(self, oid)), other, KeySeq(DOMAIN other.comp))

\* Components.__sub__; the negated operand is a temporary object
sub(self, other, oid) ==
    IF is_zero(other) THEN OkStore(unary_pos(self, oid))
    ELSE add(self, neg(other, oid + 1), oid)

\* Components.__eq__ with another store
eq(self, other, oid) ==
    IF other.frame # self.frame THEN OkBool(FALSE)
    ELSE IF other.nid # self.nid THEN OkBool(FALSE)
    ELSE IF other.sindex # self.sindex THEN OkBool(FALSE)
    ELSE IF other.fmt # self.fmt THEN OkBool(FALSE)
    ELSE LET diff == sub(self, other, oid)
         IN  IF diff.err # "" THEN diff ELSE OkBool(is_zero(diff.st))

\* Components.__eq__ with a number: `other is 0`, or a TypeError
eq_number(self, other) ==
    IF other = 0 THEN OkBool(is_zero(self)) ELSE Raise("TypeError")

-----------------------------------------------------------------------------
(* Tensor product, multiplication and division by a scalar *)

\* the two checks of __mul__
MulMismatch(self, other) ==
    IF other.frame # self.frame THEN "IncompatibleOperands"
    ELSE IF other.sindex # self.sindex THEN "IncompatibleOperands"
    ELSE ""

ShiftGroup_noshift(g, n) == g

RECURSIVE ShiftGroup(_, _)
\* ns = tuple(s[i]+self.nid for i in range(len(s)))
ShiftGroup(g, n) ==
    IF g = <<>> THEN <<>> ELSE <<Head(g) + n>> \o ShiftGroup(Tail(g), n)

ShiftGroups_drop(groups, n) == <<>>

RECURSIVE ShiftGroups(_, _)
ShiftGroups(groups, n) ==
    IF groups = <<>> THEN <<>>
    ELSE <<ShiftGroup(Head(groups), n)>> \o ShiftGroups(Tail(groups), n)

\* for ind_s, val_s in self._comp.items():
\*     for ind_o, val_o in other._comp.items():
\*         result._comp[ind_s + ind_o] = val_s * val_o
Products(self, other) ==
    [k \in {ks \o ko : ks \in DOMAIN self.comp, ko \in DOMAIN other.comp} |->
        RMul(self.ring, self.comp[SubSeq(k, 1, self.nid)],
             other.comp[SubSeq(k, self.nid + 1, Len(k))])]

\* the store __mul__ constructs for its result
MulResult(self, other, oid) ==
    IF IsWithSym(self)
    THEN CompWithSym_init("CompWithSym", oid, self.ring, self.frame,
             self.nid + other.nid, self.sindex, self.fmt,
             GroupList(self.sym \o (IF IsWithSym(other)
                                    THEN ShiftGroups(other.sym, self.nid) ELSE <<>>)),
             GroupList(self.antisym \o (IF IsWithSym(other)
                                        THEN ShiftGroups(other.antisym, self.nid)
                                        ELSE <<>>)))
    ELSE IF IsWithSym(other)
    THEN CompWithSym_init("CompWithSym", oid, self.ring, self.frame,
             self.nid + other.nid, self.sindex, self.fmt,
             GroupList(ShiftGroups(other.sym, self.nid)),
             GroupList(ShiftGroups(other.antisym, self.nid)))
    ELSE IF self.nid = 1 /\ other.nid = 1
    THEN IF self.oid = other.oid
         THEN CompFullySym_init(oid, self.ring, self.frame, 2, self.sindex, self.fmt)
         ELSE OkStore(Components_init(oid, self.ring, self.frame, 2, self.sindex,
                                      self.fmt))
    ELSE OkStore(Components_init(oid, self.ring, self.frame, self.nid + other.nid,
                                 self.sindex, self.fmt))

\* Components.__mul__ and CompWithSym.__mul__: self * other for two stores
mul(self, other, oid) ==
    IF MulMismatch(self, other) # "" THEN Raise(MulMismatch(self, other))
    ELSE LET result == MulResult(self, other, oid)
         IN  IF result.err # "" THEN result
             ELSE OkStore([result.st EXCEPT !.comp = Products(self, other)])

\* Components.__rmul__: other * self for a scalar other
rmul(other, self, oid) ==
    IF other = 0 THEN OkStore(new_instance(self, oid))
    ELSE OkStore([new_instance(self, oid) EXCEPT
             !.comp = [k \in DOMAIN self.comp |-> RMul(self.ring, other, self.comp[k])]])

\* Components.__div__: self / other for a scalar other; the ring raises
\* ZeroDivisionError when other has no inverse
div(self, other, oid) ==
    IF self.comp # EmptyComp /\ ~IsUnit(self.ring, Coerce(self.ring, other))
    THEN Raise("ZeroDivisionError")
    ELSE OkStore([new_instance(self, oid) EXCEPT
             !.comp = [k \in DOMAIN self.comp |->
                          RDiv(self.ring, self.comp[k], Coerce(self.ring, other))]])

-----------------------------------------------------------------------------
(* Contraction *)

\* Components.self_contract and CompWithSym.self_contract: after the checks
\* of the arguments both read self.manifold, an attribute no store has
self_contract(self, pos1, pos2) ==
    IF self.nid < 2 THEN Raise("TypeError")
    ELSE IF pos1 < 0 \/ pos1 > self.nid - 1 THEN Raise("IndexError")
    ELSE IF pos2 < 0 \/ pos2 > self.nid - 1 THEN Raise("IndexError")
    ELSE IF pos1 = pos2 THEN Raise("IndexError")
    ELSE Raise("AttributeError")

\* Components.contract
contract(self, pos1, other, pos2, oid) ==
    IF pos1 < 0 \/ pos1 > self.nid - 1 THEN Raise("IndexError")
    ELSE IF pos2 < 0 \/ pos2 > other.nid - 1 THEN Raise("IndexError")
    ELSE LET prod == mul(self, other, oid)
         IN  IF prod.err # "" THEN prod
             ELSE self_contract(prod.st, pos1, pos2 + self.nid)

-----------------------------------------------------------------------------
(* Symmetrization and antisymmetrization *)

\* the argument pos: None, or a tuple of positions
PosNone == [given |-> FALSE, v |-> <<>>]

PosOf(t) == [given |-> TRUE, v |-> t]

\* pos = range(self.nid) for None
PosList(self, posarg) == IF posarg.given THEN posarg.v ELSE PyRange(self.nid)

\* the two checks of a given pos
PosError(self, posarg) ==
    posarg.given /\ (Len(posarg.v) < 2 \/ Len(posarg.v) > self.nid)

\* The loop over result.non_redundant_index_generator().  Its first pass
\* builds ind_perm, a list, from ind and pos, and reads self[[ind_perm]]:
\* the subscript is a list that holds a list, which __getitem__ takes for a
\* single index.
SymLoop(self, result, poslist) ==
    IF non_redundant_index_generator(result) = <<>> THEN OkStore(result)
    ELSE IF \E k \in DOMAIN poslist :
                poslist[k] < 0 - self.nid \/ poslist[k] > self.nid - 1
    THEN Raise("IndexError")
    ELSE getitem(self, Head(non_redundant_index_generator(result)), "nested")

\* Components.symmetrize (fully = "CompFullySym") and
\* Components.antisymmetrize (fully = "CompFullyAntiSym")
Components_symmetrize(self, posarg, fully, oid) ==
    LET poslist == PosList(self, posarg)
        result ==
            IF Len(poslist) = self.nid
            THEN IF fully = "CompFullySym"
                 THEN CompFullySym_init(oid, self.ring, self.frame, self.nid,
                                        self.sindex, self.fmt)
                 ELSE CompFullyAntiSym_init(oid, self.ring, self.frame, self.nid,
                                            self.sindex, self.fmt)
            ELSE IF fully = "CompFullySym"
                 THEN CompWithSym_init("CompWithSym", oid, self.ring, self.frame,
                          self.nid, self.sindex, self.fmt, FlatGroup(poslist), NoGroups)
                 ELSE CompWithSym_init("CompWithSym", oid, self.ring, self.frame,
                          self.nid, self.sindex, self.fmt, NoGroups, FlatGroup(poslist))
    IN  IF PosError(self, posarg) THEN Raise("TypeError")
        ELSE IF result.err # "" THEN result
        ELSE SymLoop(self, result.st, poslist)

RECURSIVE Reduced(_, _)
\* The groups of the other kind kept in the result: a group that shares one
\* position with pos loses it (and is dropped if one position is left), a
\* group that shares none is kept.
Reduced(pos_set, groups) ==
    IF groups = <<>> THEN <<>>
    ELSE LET g == Head(groups)
             inter == pos_set \cap Range(g)
             rest == Range(g) \ inter
         IN  (IF Cardinality(inter) = 1
              THEN IF Cardinality(rest) > 1 THEN <<SetSeq(rest)>> ELSE <<>>
              ELSE <<g>>)
                 \o Reduced(pos_set, Tail(groups))

RECURSIVE Extended(_, _)
\* esym_set after the loop `for i, isym in enumerate(self.sym)`
Extended(esym_set, groups) ==
    IF groups = <<>> THEN esym_set
    ELSE IF esym_set \cap Range(Head(groups)) # {}
    THEN Extended(esym_set \cup Range(Head(groups)), Tail(groups))
    ELSE Extended(esym_set, Tail(groups))

RECURSIVE NotExtended(_, _)
\* the groups whose index is not in index_esym
NotExtended(esym_set, groups) ==
    IF groups = <<>> THEN <<>>
    ELSE IF esym_set \cap Range(Head(groups)) # {}
    THEN NotExtended(esym_set \cup Range(Head(groups)), Tail(groups))
    ELSE <<Head(groups)>> \o NotExtended(esym_set, Tail(groups))

RECURSIVE MaxLen(_)
\* max_sym
MaxLen(groups) ==
    IF groups = <<>> THEN 0
    ELSE LET m == MaxLen(Tail(groups))
         IN  IF Len(Head(groups)) > m THEN Len(Head(groups)) ELSE m

Interference_never(pos_set, g) == FALSE

\* inter = pos_set.intersection(set(iasym)); len(inter) > 1
Interference(pos_set, g) == Cardinality(pos_set \cap Range(g)) > 1

\* CompWithSym.symmetrize (fully = "CompFullySym": same are the symmetric
\* groups of self, others its antisymmetric groups) and
\* CompWithSym.antisymmetrize (fully = "CompFullyAntiSym": the converse)
CompWithSym_symmetrize(self, posarg, fully, oid) ==
    LET poslist == PosList(self, posarg)
        pos_set == Range(poslist)
        same == IF fully = "CompFullySym" THEN self.sym ELSE self.antisym
        others == IF fully = "CompFullySym" THEN self.antisym ELSE self.sym
        zero ==
            IF fully = "CompFullySym"
            THEN CompFullySym_init(oid, self.ring, self.frame, self.nid,
                                   self.sindex, self.fmt)
            ELSE CompFullyAntiSym_init(oid, self.ring, self.frame, self.nid,
                                       self.sindex, self.fmt)
        others_res == Reduced(pos_set, others)
        same_res == <<SetSeq(Extended(pos_set, same))>> \o NotExtended(pos_set, same)
        result ==
            IF MaxLen(same_res) = self.nid THEN zero
            ELSE IF fully = "CompFullySym"
            THEN CompWithSym_init("CompWithSym", oid, self.ring, self.frame,
                     self.nid, self.sindex, self.fmt, GroupList(same_res),
                     GroupList(others_res))
            ELSE CompWithSym_init("CompWithSym", oid, self.ring, self.frame,
                     self.nid, self.sindex, self.fmt, GroupList(others_res),
                     GroupList(same_res))
    IN  IF PosError(self, posarg) THEN Raise("TypeError")
        ELSE IF \E g \in DOMAIN same : pos_set \subseteq Range(same[g])
        THEN OkStore(copy(self, oid))
        ELSE IF \E g \in DOMAIN others : Interference(pos_set, others[g])
        THEN zero
        ELSE IF result.err # "" THEN result
        ELSE SymLoop(self, result.st, poslist)

\* self.symmetrize(pos)
symmetrize(self, posarg, oid) ==
    IF IsWithSym(self) THEN CompWithSym_symmetrize(self, posarg, "CompFullySym", oid)
    ELSE Components_symmetrize(self, posarg, "CompFullySym", oid)

\* self.antisymmetrize(pos)
antisymmetrize(self, posarg, oid) ==
    IF IsWithSym(self) THEN CompWithSym_symmetrize(self, posarg, "CompFullyAntiSym", oid)
    ELSE Components_symmetrize(self, posarg, "CompFullyAntiSym", oid)

-----------------------------------------------------------------------------
(* The state machine: registers a and b hold the caller's stores, r the     *)
(* store last returned, ret what the last call returned or raised, op the   *)
(* last call with its arguments (pre: the receiver before the call).        *)

RECURSIVE Tuples(_, _)
\* all tuples of length n over S
Tuples(n, S) ==
    IF n = 0 THEN {<<>>}
    ELSE {t \o <<x>> : t \in Tuples(n - 1, S), x \in S}

IndexValues(st) == st.sindex .. (st.sindex + Dim(st) - 1)

\* the valid index tuples of a store
ValidArgs(st) == Tuples(st.nid, IndexValues(st))

\* index tuples with one item too few, one too many, or one item just
\* outside the range
BadArgs(st) ==
    LET V == ValidArgs(st)
        Out == {st.sindex - 1, st.sindex + Dim(st)}
    IN  {Front(t) : t \in V}
        \cup {t \o <<x>> : t \in V, x \in IndexValues(st) \cup Out}
        \cup {[t EXCEPT ![k] = x] : t \in V, k \in 1 .. st.nid, x \in Out}

SetVals == 0 .. MaxVal

Reg(tgt) == IF tgt = "a" THEN a ELSE IF tgt = "b" THEN b ELSE r

\* a store is updated in every register that holds the same object
Updated(reg, old, new) == IF reg.oid = old.oid /\ reg.cls # "None" THEN new ELSE reg

\* c[args] = v on the store of register tgt
WriteItem(tgt, args, form, v) ==
    /\ Reg(tgt).cls # "None"
    /\ LET st == Reg(tgt)
           res == setitem(st, args, form, v)
       IN  /\ a' = IF res.err = "" THEN Updated(a, st, res.st) ELSE a
           /\ b' = IF res.err = "" THEN Updated(b, st, res.st) ELSE b
           /\ r' = IF res.err = "" THEN Updated(r, st, res.st) ELSE r
           /\ ret' = IF res.err = "" THEN OkVal(0) ELSE res
           /\ op' = [name |-> "set", target |-> tgt, args |-> args,
                     form |-> form, val |-> v, pre |-> st]
    /\ nsets' = nsets + 1
    /\ UNCHANGED nops

\* a write counted against MaxSets
SetItem(tgt, args, form, v) ==
    /\ nsets < MaxSets
    /\ WriteItem(tgt, args, form, v)

\* c[args] on the store of register tgt
GetItem(tgt, args, form) ==
    /\ Reg(tgt).cls # "None"
    /\ ret' = getitem(Reg(tgt), args, form)
    /\ op' = [name |-> "get", target |-> tgt, args |-> args, form |-> form,
              val |-> 0, pre |-> Reg(tgt)]
    /\ UNCHANGED <<a, b, r, nsets, nops>>

InitOp == [name |-> "init"]

-----------------------------------------------------------------------------
(* Construction: SpecNew *)

\* largest number of indices of a constructed store
MaxNewNid == 4

\* candidate groups: short tuples of positions, some out of [0, nid-1]
GroupsFor(nid) ==
    Tuples(1, 0 .. (nid - 1)) \cup Tuples(2, (0 - 1) .. nid)
        \cup Tuples(3, 0 .. ((IF nid < 3 THEN nid ELSE 3) - 1))

SymArgs(nid) ==
    {NoGroups}
        \cup {FlatGroup(g) : g \in GroupsFor(nid)}
        \cup {GroupList(<<g>>) : g \in GroupsFor(nid)}
        \cup {GroupList(<<g, h>>) : g \in Tuples(2, 0 .. (nid - 1)),
                                    h \in Tuples(2, 0 .. (nid - 1))}

AntisymArgs(nid) ==
    {NoGroups}
        \cup {FlatGroup(g) : g \in GroupsFor(nid)}
        \cup {GroupList(<<g>>) : g \in Tuples(2, 0 .. (nid - 1))}

\* CompWithSym(ring, frame, nid, sindex, None, sym, antisym)
Construct(nid, symarg, antisymarg) ==
    /\ LET res == CompWithSym_init("CompWithSym", 3, 5, "e", nid, 0, "None",
                                   symarg, antisymarg)
       IN  /\ ret' = [res EXCEPT !.st = NoStore]
           /\ r' = res.st
    /\ op' = [name |-> "new", nid |-> nid, sym |-> symarg, antisym |-> antisymarg]
    /\ UNCHANGED <<a, b, nsets, nops>>

InitNew ==
    /\ a = NoStore
    /\ b = NoStore
    /\ r = NoStore
    /\ ret = OkVal(0)
    /\ op = InitOp
    /\ nsets = 0
    /\ nops = 0

\* KroneckerDelta.__init__(self, frame): it calls
\* CompFullySym.__init__(self, frame, 2), which takes ring, frame and
\* nb_indices; the call has one argument too few and raises TypeError
KroneckerDelta_init(oid, frame) == Raise("TypeError")

\* KroneckerDelta.__setitem__: raises NotImplementedError, the error kind
\* Frozen
KroneckerDelta_setitem(st, args, value) == Raise("Frozen")

\* KroneckerDelta(frame)
ConstructDelta(frame) ==
    /\ LET res == KroneckerDelta_init(3, frame)
       IN  /\ ret' = [res EXCEPT !.st = NoStore]
           /\ r' = res.st
    /\ op' = [name |-> "delta", frame |-> frame]
    /\ UNCHANGED <<a, b, nsets, nops>>

\* one construction in a behaviour
NextNew ==
    /\ op = InitOp
    /\ \/ \E nid \in 1 .. MaxNewNid : \E symarg \in SymArgs(nid) :
              \E antisymarg \in AntisymArgs(nid) : Construct(nid, symarg, antisymarg)
       \/ \E frame \in Frames : ConstructDelta(frame)

SpecNew == InitNew /\ [][NextNew]_vars

-----------------------------------------------------------------------------
(* Reading and writing single components: SpecSet *)

\* Components(ring, frame, nid, sindex)
NewPlain(ring, frame, nid, sindex) ==
    Components_init(1, ring, frame, nid, sindex, "None")

\* CompWithSym(ring, frame, nid, sindex, None, sym, antisym)
NewWithSym(ring, frame, nid, sindex, sym, antisym) ==
    CompWithSym_init("CompWithSym", 1, ring, frame, nid, sindex, "None",
                     GroupList(sym), GroupList(antisym)).st

NewFullySym(ring, frame, nid, sindex) ==
    CompFullySym_init(1, ring, frame, nid, sindex, "None").st

NewFullyAntiSym(ring, frame, nid, sindex) ==
    CompFullyAntiSym_init(1, ring, frame, nid, sindex, "None").st

\* the stores the behaviours of SpecSet start from, freshly constructed
SetShapes ==
    {NewPlain(m, "e", n, 0) : m \in Rings, n \in 1 .. 2}
        \cup {NewPlain(5, "e", 2, 1)}
        \cup {NewWithSym(m, "e", 2, 0, <<<<0, 1>>>>, <<>>) : m \in Rings}
        \cup {NewWithSym(m, "e", 2, si, <<>>, <<<<0, 1>>>>) : m \in Rings, si \in 0 .. 1}
        \cup {NewWithSym(5, "e", 2, 0, <<<<1, 0>>>>, <<>>),
              NewWithSym(5, "e", 2, 0, <<>>, <<<<1, 0>>>>),
              NewWithSym(5, "e", 3, 0, <<<<0, 2>>>>, <<>>),
              NewWithSym(5, "e", 3, 1, <<>>, <<<<1, 2>>>>),
              NewWithSym(5, "g", 3, 0, <<>>, <<<<2, 0, 1>>>>),
              NewWithSym(5, "e", 4, 0, <<<<0, 1>>>>, <<<<2, 3>>>>),
              NewWithSym(5, "e", 4, 0, <<>>, <<<<0, 3>>, <<1, 2>>>>)}
        \cup {NewFullySym(m, "e", 2, 0) : m \in Rings}
        \cup {NewFullySym(5, "g", 2, 1), NewFullySym(5, "e", 3, 0)}
        \cup {NewFullyAntiSym(m, "e", 2, 0) : m \in Rings}
        \cup {NewFullyAntiSym(5, "g", 3, 0)}

InitSet ==
    /\ a \in SetShapes
    /\ b = NoStore
    /\ r = NoStore
    /\ ret = OkVal(0)
    /\ op = InitOp
    /\ nsets = 0
    /\ nops = 0

SetValid == \E args \in ValidArgs(a) : \E v \in SetVals : SetItem("a", args, "tuple", v)

GetValid == \E args \in ValidArgs(a) : GetItem("a", args, "tuple")

NextSet == SetValid \/ GetValid

SpecSet == InitSet /\ [][NextSet]_vars

-----------------------------------------------------------------------------
(* Index validation: SpecIdx *)

IdxShapes ==
    {NewPlain(5, "e", 1, 0), NewPlain(5, "e", 2, 1),
     NewWithSym(5, "e", 2, 0, <<<<0, 1>>>>, <<>>),
     NewFullySym(5, "e", 2, 0), NewFullyAntiSym(5, "e", 2, 1)}

InitIdx ==
    /\ a \in IdxShapes
    /\ b = NoStore
    /\ r = NoStore
    /\ ret = OkVal(0)
    /\ op = InitOp
    /\ nsets = 0
    /\ nops = 0

\* the subscript forms c[i,j,...] and c[[i,j,...]]
IdxForms == {"tuple", "list"}

SetAny ==
    \E args \in ValidArgs(a) \cup BadArgs(a) : \E form \in IdxForms :
        \E v \in {0, 1} : SetItem("a", args, form, v)

GetAny ==
    \E args \in ValidArgs(a) \cup BadArgs(a) : \E form \in IdxForms :
        GetItem("a", args, form)

NextIdx == SetAny \/ GetAny

SpecIdx == InitIdx /\ [][NextIdx]_vars

-----------------------------------------------------------------------------
(* The index generators, one iteration of their while loop at a time:      *)
(* SpecGen.  op holds the generator: its name, the list ind, the tuples    *)
(* yielded so far and whether the loop has ended.                          *)

\* the stores whose indices are generated
GenShapes ==
    {NewPlain(5, fr, n, si) : fr \in {"z", "u", "e", "g"}, n \in 1 .. 3, si \in 0 .. 1}
        \cup {NewFullySym(5, fr, n, si) :
                  fr \in {"z", "u", "e", "g"}, n \in 2 .. 3, si \in 0 .. 1}
        \cup {NewFullyAntiSym(5, fr, n, si) :
                  fr \in {"z", "u", "e", "g"}, n \in 2 .. 3, si \in 0 .. 1}
        \cup {NewWithSym(5, "g", 3, 0, <<<<0, 2>>>>, <<>>),
              NewWithSym(5, "g", 3, 1, <<>>, <<<<1, 2>>>>),
              NewWithSym(5, "e", 4, 0, <<<<0, 1>>>>, <<<<2, 3>>>>),
              NewWithSym(5, "e", 2, 0, <<<<1, 0>>>>, <<>>),
              NewWithSym(5, "g", 3, 0, <<<<2, 0>>>>, <<>>),
              NewWithSym(5, "g", 3, 0, <<>>, <<<<2, 0, 1>>>>)}

Generators == {"index_generator", "non_redundant_index_generator"}

InitGen ==
    /\ a \in GenShapes
    /\ b = NoStore
    /\ r = NoStore
    /\ ret = OkVal(0)
    /\ op = InitOp
    /\ nsets = 0
    /\ nops = 0

\* the call of a generator: ind = [si for k in range(self.nid)]
StartGenerator(gen) ==
    /\ op = InitOp
    /\ op' = [name |-> gen, store |-> a, ind |-> Repeat(a.sindex, a.nid),
              out |-> <<>>, done |-> FALSE]
    /\ UNCHANGED <<a, b, r, ret, nsets, nops>>

\* one test of `while ind != ind_end` and, if it passes, one pass of the body
StepGenerator ==
    /\ op.name \in Generators
    /\ ~op.done
    /\ IF op.ind = IndEnd(a)
       THEN op' = [op EXCEPT !.done = TRUE]
       ELSE op' = [op EXCEPT
                      !.out = IF op.name = "non_redundant_index_generator"
                                  /\ IsWithSym(a) /\ ~IsOrdered(a, op.ind)
                              THEN @ ELSE Append(@, op.ind),
                      !.ind = Odometer(@, a.nid - 1, 1, a.sindex,
                                       Dim(a) - 1 + a.sindex)]
    /\ UNCHANGED <<a, b, r, ret, nsets, nops>>

NextGen ==
    \/ \E gen \in Generators : StartGenerator(gen)
    \/ StepGenerator

\* the caller's for loop keeps asking the generator for its next tuple
SpecGen == InitGen /\ [][NextGen]_vars /\ WF_vars(NextGen)

-----------------------------------------------------------------------------
(* Operations on stores: Spec *)

\* the second object of a behaviour
Second(st) == [st EXCEPT !.oid = 2]

\* the pairs of stores the behaviours of Spec start from
ArithPairs ==
    {<<NewPlain(4, "e", 1, 0), Second(NewPlain(4, "e", 1, 0))>>,
     <<NewPlain(5, "e", 2, 0), Second(NewFullySym(5, "e", 2, 0))>>,
     <<NewFullyAntiSym(5, "e", 2, 0), Second(NewFullySym(5, "e", 2, 0))>>,
     <<NewPlain(5, "e", 2, 0), Second(NewPlain(5, "f", 2, 0))>>,
     <<NewFullyAntiSym(5, "e", 2, 0), Second(NewFullyAntiSym(5, "e", 2, 1))>>,
     <<NewWithSym(5, "e", 3, 0, <<<<0, 1>>>>, <<>>),
       Second(NewWithSym(5, "e", 3, 0, <<>>, <<<<1, 2>>>>))>>,
     <<NewPlain(5, "e", 3, 0), Second(NewPlain(5, "e", 1, 0))>>}

Init ==
    /\ \E pair \in ArithPairs : a = pair[1] /\ b = pair[2]
    /\ r = NoStore
    /\ ret = OkVal(0)
    /\ op = InitOp
    /\ nsets = 0
    /\ nops = 0

\* an operation on the stores of registers x and y that returns res; the
\* object it returns is the third of the behaviour
Operate(name, x, y, s, p1, p2, posarg, res) ==
    /\ nops < MaxOps
    /\ r' = res.st
    /\ ret' = [res EXCEPT !.st = NoStore]
    /\ op' = [name |-> name, x |-> x, y |-> y, s |-> s, p1 |-> p1, p2 |-> p2,
              pos |-> posarg]
    /\ nops' = nops + 1
    /\ UNCHANGED <<a, b, nsets>>

Operands == {"a", "b"}

Scalars == {0, 1, 2}

\* positions handed to the contractions: valid ones, -1 and nid
Positions(st) == (0 - 1) .. st.nid

\* pos arguments of symmetrize and antisymmetrize
PosArgs(st) ==
    {PosNone, PosOf(<<0>>), PosOf(<<0, 1, 2>>), PosOf(<<0, 1, 2, 3>>)}
        \cup {PosOf(t) : t \in Tuples(2, 0 .. st.nid)}

Read(x) ==
    /\ nops < MaxOps
    /\ \E args \in ValidArgs(Reg(x)) :
           Operate("get", x, x, 0, 0, 0, PosNone, getitem(Reg(x), args, "tuple"))

Copy(x) == Operate("copy", x, x, 0, 0, 0, PosNone, OkStore(copy(Reg(x), 3)))

Neg(x) == Operate("neg", x, x, 0, 0, 0, PosNone, OkStore(neg(Reg(x), 3)))

IsZero(x) == Operate("is_zero", x, x, 0, 0, 0, PosNone, OkBool(is_zero(Reg(x))))

Eq(x, y) == Operate("eq", x, y, 0, 0, 0, PosNone, eq(Reg(x), Reg(y), 3))

EqNumber(x, s) == Operate("eq_number", x, x, s, 0, 0, PosNone, eq_number(Reg(x), s))

Add(x, y) == Operate("add", x, y, 0, 0, 0, PosNone, add(Reg(x), Reg(y), 3))

Sub(x, y) == Operate("sub", x, y, 0, 0, 0, PosNone, sub(Reg(x), Reg(y), 3))

Mul(x, y) == Operate("mul", x, y, 0, 0, 0, PosNone, mul(Reg(x), Reg(y), 3))

ScalarMul(s, x) == Operate("rmul", x, x, s, 0, 0, PosNone, rmul(s, Reg(x), 3))

ScalarDiv(x, s) == Operate("div", x, x, s, 0, 0, PosNone, div(Reg(x), s, 3))

SelfContract(x) ==
    /\ nops < MaxOps
    /\ \E p1 \in Positions(Reg(x)) : \E p2 \in {0, 1, Reg(x).nid} :
           Operate("self_contract", x, x, 0, p1, p2, PosNone,
                   self_contract(Reg(x), p1, p2))

Contract(x, y) ==
    /\ nops < MaxOps
    /\ \E p1 \in {0 - 1, 0, Reg(x).nid} : \E p2 \in {0, Reg(y).nid} :
           Operate("contract", x, y, 0, p1, p2, PosNone,
                   contract(Reg(x), p1, Reg(y), p2, 3))

\* pos1 < pos2 < pos3: the first positions of the two sets and the end of
\* the second
Swap(x) ==
    /\ nops < MaxOps
    /\ \E p1 \in 0 .. Reg(x).nid : \E p2 \in (p1 + 1) .. Reg(x).nid :
           \E p3 \in (p2 + 1) .. Reg(x).nid :
               Operate("swap_adjacent_indices", x, x, 0, p1, p2, PosOf(<<p1, p2, p3>>),
                       swap_adjacent_indices(Reg(x), p1, p2, p3, 3))

Symmetrize(x) ==
    /\ nops < MaxOps
    /\ \E posarg \in PosArgs(Reg(x)) :
           Operate("symmetrize", x, x, 0, 0, 0, posarg, symmetrize(Reg(x), posarg, 3))

Antisymmetrize(x) ==
    /\ nops < MaxOps
    /\ \E posarg \in PosArgs(Reg(x)) :
           Operate("antisymmetrize", x, x, 0, 0, 0, posarg,
                   antisymmetrize(Reg(x), posarg, 3))

\* the values written to a store before the operation
ArithVals(st) == IF st.nid > 2 THEN {1} ELSE {1, 2}

\* the stores are filled before the operation
Build ==
    /\ nops = 0
    /\ nsets < MaxSets
    /\ \E x \in Operands : \E args \in ValidArgs(Reg(x)) : \E v \in ArithVals(Reg(x)) :
           SetItem(x, args, "tuple", v)

\* a write to the store an operation returned
WriteResult ==
    /\ r.cls # "None"
    /\ nsets < MaxSets
    /\ \E args \in ValidArgs(r) : SetItem("r", args, "tuple", 1)

Next ==
    \/ Build
    \/ WriteResult
    \/ \E x \in Operands : Read(x)
    \/ \E x \in Operands : Copy(x)
    \/ \E x \in Operands : Neg(x)
    \/ \E x \in Operands : IsZero(x)
    \/ \E x \in Operands : \E y \in Operands : Eq(x, y)
    \/ \E x \in Operands : \E s \in Scalars : EqNumber(x, s)
    \/ \E x \in Operands : \E y \in Operands : Add(x, y)
    \/ \E x \in Operands : \E y \in Operands : Sub(x, y)
    \/ \E x \in Operands : \E y \in Operands : Mul(x, y)
    \/ \E x \in Operands : \E s \in Scalars : ScalarMul(s, x)
    \/ \E x \in Operands : \E s \in Scalars : ScalarDiv(x, s)
    \/ \E x \in Operands : SelfContract(x)
    \/ \E x \in Operands : \E y \in Operands : Contract(x, y)
    \/ \E x \in Operands : Swap(x)
    \/ \E x \in Operands : Symmetrize(x)
    \/ \E x \in Operands : Antisymmetrize(x)

Spec == Init /\ [][Next]_vars

-----------------------------------------------------------------------------
(* A tensor product followed by writes to it: SpecZero *)

InitZero ==
    /\ a = NewPlain(5, "e", 1, 0)
    /\ b = Second(NewPlain(5, "e", 1, 0))
    /\ r = NoStore
    /\ ret = OkVal(0)
    /\ op = InitOp
    /\ nsets = 0
    /\ nops = 0

\* r[args] = v on the product, v the raw integer 0 or 1
WriteProduct ==
    /\ r.cls # "None"
    /\ nsets < MaxWrites
    /\ \E args \in ValidArgs(r) : \E v \in {0, 1} : WriteItem("r", args, "tuple", v)

NextZero ==
    \/ Build
    \/ \E x \in Operands : \E y \in Operands : Mul(x, y)
    \/ WriteProduct

SpecZero == InitZero /\ [][NextZero]_vars

-----------------------------------------------------------------------------
(* Properties of single-component writes and reads (SpecSet) *)

\* the canonical key of a valid index tuple
CanonKey(st, ind) ==
    IF IsWithSym(st) THEN ordered_indices(st, ind).ind ELSE ind

\* two equal values at two positions of one antisymmetric group
ForcedZero(st, t) ==
    \E g \in DOMAIN st.antisym : \E p, q \in DOMAIN st.antisym[g] :
        p # q /\ t[st.antisym[g][p] + 1] = t[st.antisym[g][q] + 1]

\* the positions that belong to no group
FreePositions(st) ==
    (0 .. (st.nid - 1)) \ (Range(Concat(st.sym)) \cup Range(Concat(st.antisym)))

\* the number of times x occurs in s
Count(s, x) == Cardinality({k \in DOMAIN s : s[k] = x})

\* j carries, inside every group, the values of i in some order, and agrees
\* with i elsewhere
PermutedInGroups(st, i, j) ==
    /\ \A pos \in FreePositions(st) : i[pos + 1] = j[pos + 1]
    /\ \A g \in Range(st.sym) \cup Range(st.antisym) :
           \A x \in IndexValues(st) : Count(Pick(i, g), x) = Count(Pick(j, g), x)

\* the number of inversions of a sequence of distinct values
Inversions(s) ==
    Cardinality({pq \in (DOMAIN s) \X (DOMAIN s) : pq[1] < pq[2] /\ s[pq[1]] > s[pq[2]]})

RECURSIVE SumInversions(_, _, _)
SumInversions(i, j, groups) ==
    IF groups = <<>> THEN 0
    ELSE Inversions(Pick(i, Head(groups))) + Inversions(Pick(j, Head(groups)))
             + SumInversions(i, j, Tail(groups))

\* the product of the parities of the permutations taking i to j inside the
\* antisymmetric groups
Parity(st, i, j) == IF SumInversions(i, j, st.antisym) % 2 = 0 THEN 1 ELSE -1

\* C1: after any sequence of set calls with valid indices and values the
\* backing map holds no entry whose value is the ring zero; set(i, 0)
\* removes the canonical key of i if present and never inserts one.
C1_Sparsity ==
    /\ \A k \in DOMAIN a.comp : a.comp[k] # 0
    /\ (op.name = "set" /\ op.val = 0 /\ ret.err = "") =>
           /\ DOMAIN a.comp \subseteq DOMAIN op.pre.comp
           /\ CanonKey(op.pre, op.args) \notin DOMAIN a.comp

\* C2: on a store with symmetry groups, after set(i, v) with v # 0 and i not
\* forced to zero, get(i) equals v and get(j) equals s * v for every j
\* obtained from i by permuting values inside the groups, s being the product
\* of the parities of the permutations inside the antisymmetric groups.
C2_RoundTrip ==
    (/\ op.name = "set"
     /\ ret.err = ""
     /\ op.val # 0
     /\ IsWithSym(op.pre)
     /\ ~ForcedZero(op.pre, op.args)) =>
        /\ getitem(a, op.args, "tuple") = OkVal(Coerce(a.ring, op.val))
        /\ \A j \in ValidArgs(a) :
               PermutedInGroups(a, op.args, j) =>
                   getitem(a, j, "tuple") =
                       OkVal(Signed(a.ring, Parity(a, op.args, j), Coerce(a.ring, op.val)))

\* a write through a tuple that is an odd permutation of its canonical key,
\* on a store with a symmetric and an antisymmetric group
C2_Witness ==
    /\ op.name = "set"
    /\ ret.err = ""
    /\ op.val # 0
    /\ a.sym # <<>>
    /\ a.antisym # <<>>
    /\ ordered_indices(op.pre, op.args).sign = -1
    /\ \E j \in ValidArgs(a) :
           /\ PermutedInGroups(a, op.args, j)
           /\ Parity(a, op.args, j) = -1
           /\ getitem(a, j, "tuple").val # getitem(a, op.args, "tuple").val

\* C3: on a store with an antisymmetric group, a valid tuple t with two equal
\* values at positions of that group reads 0 in every state; set(t, v) with
\* v # 0 fails with AntisymmetryConflict and set(t, 0) succeeds, both leaving
\* the backing map unchanged.
C3_AntisymZero ==
    /\ \A t \in ValidArgs(a) : ForcedZero(a, t) => getitem(a, t, "tuple") = OkVal(0)
    /\ (op.name = "set" /\ ForcedZero(op.pre, op.args)) =>
           /\ a.comp = op.pre.comp
           /\ a = op.pre
           /\ IF op.val # 0 THEN ret.err = "AntisymmetryConflict" ELSE ret.err = ""

\* a non-zero write refused on a store that holds an entry
C3_Witness ==
    /\ op.name = "set"
    /\ ForcedZero(op.pre, op.args)
    /\ op.val # 0
    /\ ret.err = "AntisymmetryConflict"
    /\ DOMAIN a.comp # {}

-----------------------------------------------------------------------------
(* Properties of index validation (SpecIdx) *)

\* wrong number of indices, or an index outside [sindex, sindex + dim - 1]
BadIndices(st, ind) ==
    \/ Len(ind) # st.nid
    \/ \E k \in DOMAIN ind : ind[k] \notin IndexValues(st)

\* C7 as stated: get and set fail with IndexOutOfRange, leaving the store
\* unchanged, whenever the number of indices differs from nid or an index is
\* out of range, and do not fail with it on nid in-range indices.
C7_AsStated ==
    op.name \in {"get", "set"} =>
        IF BadIndices(op.pre, op.args)
        THEN ret.err = "IndexOutOfRange" /\ a = op.pre
        ELSE ret.err # "IndexOutOfRange"

\* the indices a call validates: a read in the form c[i,j,...] whose number
\* of items is not nid leaves the last item out
Validated(o) ==
    IF o.name = "get" /\ o.form = "tuple" /\ Len(o.args) # o.pre.nid
    THEN Front(o.args)
    ELSE o.args

\* C7: set in both forms and get in the form c[[i,j,...]] fail with
\* IndexOutOfRange, leaving the store unchanged, exactly when the number of
\* indices differs from nid or an index is out of range; get in the form
\* c[i,j,...] with a number of items other than nid does so for the items
\* before the last.
C7_IndexValidation ==
    op.name \in {"get", "set"} =>
        IF BadIndices(op.pre, Validated(op))
        THEN ret.err = "IndexOutOfRange" /\ a = op.pre
        ELSE ret.err # "IndexOutOfRange"

\* a read with nid + 1 items that succeeds
C7_Witness ==
    /\ op.name = "get"
    /\ op.form = "tuple"
    /\ Len(op.args) = op.pre.nid + 1
    /\ ret.err = ""

-----------------------------------------------------------------------------
(* Properties of construction (SpecNew) *)

\* a malformed group, or a position that occurs twice over all groups
BadSpec(nid, sym, antisym) ==
    LET groups == sym \o antisym
    IN  \/ \E g \in DOMAIN groups : Len(groups[g]) < 2
        \/ \E g \in DOMAIN groups : \E k \in DOMAIN groups[g] :
               groups[g][k] \notin 0 .. (nid - 1)
        \/ \E g, h \in DOMAIN groups : \E k \in DOMAIN groups[g] :
               \E l \in DOMAIN groups[h] :
                   <<g, k>> # <<h, l>> /\ groups[g][k] = groups[h][l]

\* C8: constructing a with-symmetry store fails with InvalidSymmetrySpec
\* if and only if a group has fewer than 2 positions, or holds a position
\* outside [0, nid-1], or a position occurs more than once over all groups;
\* otherwise the store is created empty with exactly the given groups.
C8_Construction ==
    op.name = "new" =>
        IF BadSpec(op.nid, Groups(op.sym), Groups(op.antisym))
        THEN ret.err = "InvalidSymmetrySpec" /\ r = NoStore
        ELSE /\ ret.err = ""
             /\ r.cls = "CompWithSym"
             /\ r.nid = op.nid
             /\ r.comp = EmptyComp
             /\ r.sym = Groups(op.sym)
             /\ r.antisym = Groups(op.antisym)

\* a construction refused only because two well-formed groups share a position
C8_Witness ==
    /\ op.name = "new"
    /\ ret.err = "InvalidSymmetrySpec"
    /\ Groups(op.sym) # <<>>
    /\ Groups(op.antisym) # <<>>
    /\ \A g \in Range(Groups(op.sym)) \cup Range(Groups(op.antisym)) :
           Len(g) >= 2 /\ \A k \in DOMAIN g : g[k] \in 0 .. (op.nid - 1)

-----------------------------------------------------------------------------
(* Properties of the operations (Spec) *)

\* no stored value is the ring zero
NoZero(st) == \A k \in DOMAIN st.comp : st.comp[k] # 0

\* the stores a behaviour holds
Stores == {st \in {a, b, r} : st.cls # "None"}

\* the operations that return a store or a value and take stores
OpNames ==
    {"get", "is_zero", "eq", "neg", "add", "sub", "rmul", "div", "mul",
     "contract", "self_contract", "symmetrize", "antisymmetrize", "copy"}

\* C4: given operands without a zero entry, the store returned by negation,
\* addition, subtraction, scalar multiplication, scalar division, tensor
\* product, self-contraction, contraction, symmetrize or antisymmetrize
\* holds no entry whose value is the ring zero.
C4_NoZeroPreserved ==
    (/\ op.name \in OpNames \ {"get", "is_zero", "eq", "copy"}
     /\ NoZero(a)
     /\ NoZero(b)) => NoZero(r)

\* C5: get, is_zero, ==, negation, +, -, scalar * and /, tensor product,
\* contract, self_contract, symmetrize, antisymmetrize and copy leave the
\* stores a and b as they are and return an object that is neither of them;
\* a later set on the returned store leaves a and b as they are.
C5_OperandsUnchanged ==
    [][/\ op'.name \in OpNames =>
              /\ a' = a
              /\ b' = b
              /\ r'.cls # "None" => r'.oid \notin {a.oid, b.oid}
       /\ (op'.name = "set" /\ op'.target = "r") => (a' = a /\ b' = b)]_vars

\* a write to a returned store that started with the entries and the
\* symmetries of a
C5_Witness ==
    /\ op.name = "set"
    /\ op.target = "r"
    /\ ret.err = ""
    /\ DOMAIN a.comp # {}
    /\ op.pre.comp = a.comp
    /\ op.pre.cls = a.cls
    /\ op.pre.sym = a.sym
    /\ op.pre.antisym = a.antisym
    /\ r.comp # a.comp

\* the operands differ in frame, in nid or in start index
Incompatible(x, y) == x.frame # y.frame \/ x.nid # y.nid \/ x.sindex # y.sindex

\* C6: a + b and a - b fail with IncompatibleOperands and return no store
\* whenever a and b differ in frame, in nid or in start index, whatever
\* they hold.
C6_RejectIncompatible ==
    (op.name \in {"add", "sub"} /\ Incompatible(Reg(op.x), Reg(op.y))) =>
        (ret.err = "IncompatibleOperands" /\ r = NoStore)

\* C9: for every store st, st + (-st) == 0 is true and st - st is zero.
C9_AdditiveInverse ==
    \A st \in Stores :
        LET s1 == add(st, neg(st, 4), 5)
            s2 == sub(st, st, 6)
        IN  /\ s1.err = ""
            /\ is_zero(s1.st)
            /\ s2.err = ""
            /\ is_zero(s2.st)

\* C10: for all stores x, y with the same frame, nid and start index and
\* every store z on the same frame and start index,
\* (x + y) * z == x * z + y * z.
C10_LeftAdditive ==
    \A x \in Stores : \A y \in Stores : \A z \in Stores :
        (~Incompatible(x, y) /\ z.frame = x.frame /\ z.sindex = x.sindex) =>
            LET s == add(x, y, 4)
                lhs == mul(s.st, z, 5)
                xz == mul(x, z, 6)
                yz == mul(y, z, 7)
                rhs == add(xz.st, yz.st, 8)
                e == eq(lhs.st, rhs.st, 9)
            IN  /\ s.err = ""
                /\ lhs.err = ""
                /\ xz.err = ""
                /\ yz.err = ""
                /\ rhs.err = ""
                /\ e = OkBool(TRUE)

-----------------------------------------------------------------------------
(* Properties of the tensor product (Spec) *)

\* C11: for stores x and y on the same frame and with the same start index,
\* x * y succeeds, has x.nid + y.nid indices and reads, at every valid index
\* tuple i of x followed by every valid index tuple j of y (canonical or not),
\* the product of x.get(i) and y.get(j).
C11_ProductValues ==
    (op.name = "mul" /\ MulMismatch(Reg(op.x), Reg(op.y)) = "") =>
        /\ ret.err = ""
        /\ r.nid = Reg(op.x).nid + Reg(op.y).nid
        /\ \A i \in ValidArgs(Reg(op.x)) : \A j \in ValidArgs(Reg(op.y)) :
               getitem(r, i \o j, "tuple") =
                   OkVal(RMul(r.ring, Get(Reg(op.x), i), Get(Reg(op.y), j)))

\* a product with a symmetric right operand whose value is read, non-zero,
\* through an index tuple that is not a key of the product, while the
\* left operand holds a value at one index pair and not at the swapped one
C11_Witness ==
    /\ op.name = "mul"
    /\ ret.err = ""
    /\ Reg(op.y).sym # <<>>
    /\ \E i \in ValidArgs(Reg(op.x)) : \E j \in ValidArgs(Reg(op.y)) :
           /\ (i \o j) \notin DOMAIN r.comp
           /\ Get(r, i \o j) # 0
    /\ \E i \in DOMAIN Reg(op.x).comp :
           /\ Len(i) = 2
           /\ Get(Reg(op.x), <<i[2], i[1]>>) = 0

-----------------------------------------------------------------------------
(* Properties of the contractions (Spec) *)

RECURSIVE RingSum(_, _)
\* the sum, in Z/m, of a sequence of ring elements
RingSum(m, s) == IF s = <<>> THEN 0 ELSE RAdd(m, Head(s), RingSum(m, Tail(s)))

\* the index values of a store, ascending
IndexSeq(st) == [n \in 1 .. Dim(st) |-> st.sindex + n - 1]

\* k with i inserted so that it stands at the 0-based position p
InsertAt(k, p, i) == SubSeq(k, 1, p) \o <<i>> \o SubSeq(k, p + 1, Len(k))

\* k with i inserted so that it stands at the positions lo < hi
InsertTwo(k, lo, hi, i) == InsertAt(InsertAt(k, lo, i), hi, i)

\* the sum over i of st.get(k with i at the positions lo and hi)
ContractedValue(st, lo, hi, k) ==
    RingSum(st.ring, [n \in 1 .. Dim(st) |->
                         Get(st, InsertTwo(k, lo, hi, IndexSeq(st)[n]))])

Min(x, y) == IF x < y THEN x ELSE y

Max(x, y) == IF x < y THEN y ELSE x

\* two distinct positions of st
ValidPair(st, p1, p2) ==
    /\ p1 \in 0 .. (st.nid - 1)
    /\ p2 \in 0 .. (st.nid - 1)
    /\ p1 # p2

\* C12: on a 2-index store, self_contract(0, 1) and self_contract(1, 0)
\* return the ring element that is the sum of get(i, i) over the index
\* range.
C12_Trace ==
    (/\ op.name = "self_contract"
     /\ Reg(op.x).nid = 2
     /\ ValidPair(Reg(op.x), op.p1, op.p2)) =>
        ret = OkVal(ContractedValue(Reg(op.x), 0, 1, <<>>))

\* the position left to pos once the positions lo < hi are removed
Renumber(pos, lo, hi) ==
    IF pos < lo THEN pos ELSE IF pos < hi THEN pos - 1 ELSE pos - 2

\* a group without lo and hi, renumbered
ContractedGroup(g, lo, hi) ==
    LET kept == SelectSeq(g, LAMBDA pos : pos \notin {lo, hi})
    IN  [n \in 1 .. Len(kept) |-> Renumber(kept[n], lo, hi)]

RECURSIVE ContractedGroups(_, _, _)
\* the groups that keep at least two positions
ContractedGroups(groups, lo, hi) ==
    IF groups = <<>> THEN <<>>
    ELSE (IF Len(ContractedGroup(Head(groups), lo, hi)) < 2 THEN <<>>
          ELSE <<ContractedGroup(Head(groups), lo, hi)>>)
             \o ContractedGroups(Tail(groups), lo, hi)

\* C13: on a store with more than 2 indices, self_contract(pos1, pos2)
\* returns a store whose groups are those of the receiver with pos1 and pos2
\* deleted, the groups left with fewer than 2 positions dropped and the
\* remaining positions renumbered past the removed slots.
C13_ContractedSymmetries ==
    (/\ op.name = "self_contract"
     /\ Reg(op.x).nid > 2
     /\ ValidPair(Reg(op.x), op.p1, op.p2)) =>
        /\ ret.err = ""
        /\ r.nid = Reg(op.x).nid - 2
        /\ r.sym = ContractedGroups(Reg(op.x).sym, Min(op.p1, op.p2), Max(op.p1, op.p2))
        /\ r.antisym =
               ContractedGroups(Reg(op.x).antisym, Min(op.p1, op.p2), Max(op.p1, op.p2))

\* C19: on a store with more than 2 indices and for distinct positions in
\* [0, nid-1], self_contract(pos1, pos2) returns a store that reads, at every
\* (nid-2)-index tuple k, the sum over i of get(k with i inserted at
\* min(pos1, pos2) and max(pos1, pos2)); fewer than 2 indices, equal
\* positions or a position outside [0, nid-1] are rejected with an error.
C19_ContractedValues ==
    op.name = "self_contract" =>
        IF Reg(op.x).nid < 2 \/ ~ValidPair(Reg(op.x), op.p1, op.p2)
        THEN ret.err # ""
        ELSE Reg(op.x).nid > 2 =>
                 /\ ret.err = ""
                 /\ r.nid = Reg(op.x).nid - 2
                 /\ \A k \in Tuples(Reg(op.x).nid - 2, IndexValues(Reg(op.x))) :
                        getitem(r, k, "list") =
                            OkVal(ContractedValue(Reg(op.x), Min(op.p1, op.p2),
                                                  Max(op.p1, op.p2), k))

\* the sum over i of x.get(kx with i at p1) * y.get(ky with i at p2)
CrossValue(x, p1, y, p2, kx, ky) ==
    RingSum(x.ring, [n \in 1 .. Dim(x) |->
                        RMul(x.ring, Get(x, InsertAt(kx, p1, IndexSeq(x)[n])),
                             Get(y, InsertAt(ky, p2, IndexSeq(x)[n])))])

\* C20: for stores x, y on the same frame and start index,
\* x.contract(pos1, y, pos2) returns what
\* (x * y).self_contract(pos1, pos2 + x.nid) returns, which for
\* 0 <= pos1 < x.nid and 0 <= pos2 < y.nid is the sum over i of
\* x.get(.. i at pos1 ..) * y.get(.. i at pos2 ..) at every remaining index;
\* a position outside those ranges fails with an index error.
C20_ContractIsProductThenSelfContract ==
    (op.name = "contract" /\ MulMismatch(Reg(op.x), Reg(op.y)) = "") =>
        LET x == Reg(op.x)
            y == Reg(op.y)
            prod == mul(x, y, 4)
            sc == self_contract(prod.st, op.p1, op.p2 + x.nid)
        IN  IF op.p1 \notin 0 .. (x.nid - 1) \/ op.p2 \notin 0 .. (y.nid - 1)
            THEN ret.err = "IndexError"
            ELSE /\ ret = [sc EXCEPT !.st = NoStore]
                 /\ r = sc.st
                 /\ ret.err = ""
                 /\ IF x.nid + y.nid = 2
                    THEN ret = OkVal(CrossValue(x, op.p1, y, op.p2, <<>>, <<>>))
                    ELSE \A kx \in Tuples(x.nid - 1, IndexValues(x)) :
                             \A ky \in Tuples(y.nid - 1, IndexValues(y)) :
                                 getitem(r, kx \o ky, "list") =
                                     OkVal(CrossValue(x, op.p1, y, op.p2, kx, ky))

-----------------------------------------------------------------------------
(* Properties of symmetrize and antisymmetrize (Spec) *)

\* a pos argument of 2 to nid distinct positions of st (None: all of them)
Admissible(st, posarg) ==
    LET poslist == PosList(st, posarg)
    IN  /\ Len(poslist) >= 2
        /\ Len(poslist) <= st.nid
        /\ \A k \in DOMAIN poslist : poslist[k] \in 0 .. (st.nid - 1)
        /\ Cardinality(Range(poslist)) = Len(poslist)

\* C14: for every store x and every admissible pos, x.symmetrize(pos) returns
\* a store s with s.symmetrize(pos) == s, and x.antisymmetrize(pos) returns a
\* store s with s.antisymmetrize(pos) == s.
C14_Idempotent ==
    (/\ op.name \in {"symmetrize", "antisymmetrize"}
     /\ Admissible(Reg(op.x), op.pos)) =>
        /\ ret.err = ""
        /\ LET again == IF op.name = "symmetrize" THEN symmetrize(r, op.pos, 4)
                        ELSE antisymmetrize(r, op.pos, 4)
           IN  /\ again.err = ""
               /\ eq(again.st, r, 5) = OkBool(TRUE)

\* two positions of poslist lie in one group of groups
TwoInOneGroup(poslist, groups) ==
    \E g \in DOMAIN groups : \E p, q \in Range(poslist) :
        p # q /\ p \in Range(groups[g]) /\ q \in Range(groups[g])

\* C15: symmetrize over a list of 2 to nid positions (or over all positions)
\* two of which lie in one antisymmetric group of the receiver returns a
\* store of the same shape equal to zero; so does antisymmetrize when two of
\* the positions lie in one symmetric group.
C15_Orthogonality ==
    (/\ op.name \in {"symmetrize", "antisymmetrize"}
     /\ ~PosError(Reg(op.x), op.pos)
     /\ TwoInOneGroup(PosList(Reg(op.x), op.pos),
                      IF op.name = "symmetrize" THEN Reg(op.x).antisym
                      ELSE Reg(op.x).sym)) =>
        /\ ret.err = ""
        /\ r.frame = Reg(op.x).frame
        /\ r.nid = Reg(op.x).nid
        /\ r.sindex = Reg(op.x).sindex
        /\ is_zero(r)
        /\ r.comp = EmptyComp

\* symmetrize over the pair (1, 2) of a 3-index store antisymmetric on (1, 2)
\* that holds an entry, read with both signs
C15_Witness ==
    /\ op.name = "symmetrize"
    /\ op.pos.given
    /\ Reg(op.x).nid = 3
    /\ Reg(op.x).antisym = <<<<1, 2>>>>
    /\ Range(op.pos.v) = {1, 2}
    /\ \E k \in DOMAIN Reg(op.x).comp :
           /\ Reg(op.x).comp[k] # 0
           /\ Get(Reg(op.x), <<k[1], k[3], k[2]>>) = RNeg(Reg(op.x).ring, Reg(op.x).comp[k])
    /\ ret.err = ""
    /\ r.cls = "CompFullySym"
    /\ is_zero(r)

-----------------------------------------------------------------------------
(* Properties of KroneckerDelta (SpecNew) *)

\* C16: KroneckerDelta(frame) returns a store that reads the ring's one at
\* (i, i) and the ring's zero at (i, j), i # j, for all valid i, j, and on
\* which every set, whatever the indices and the value, fails with Frozen.
C16_KroneckerDelta ==
    op.name = "delta" =>
        /\ ret.err = ""
        /\ r.nid = 2
        /\ r.frame = op.frame
        /\ \A i \in IndexValues(r) : \A j \in IndexValues(r) :
               getitem(r, <<i, j>>, "tuple") = OkVal(IF i = j THEN 1 ELSE 0)
        /\ \A args \in ValidArgs(r) \cup BadArgs(r) : \A v \in SetVals :
               KroneckerDelta_setitem(r, args, v).err = "Frozen"

-----------------------------------------------------------------------------
(* Properties of the index generators (SpecGen) *)

\* the generator gen has ended
Ended(gen) == op.name = gen /\ op.done

RECURSIVE Pow(_, _)
Pow(x, n) == IF n = 0 THEN 1 ELSE x * Pow(x, n - 1)

RECURSIVE Fact(_)
Fact(n) == IF n <= 0 THEN 1 ELSE n * Fact(n - 1)

\* the binomial coefficient C(n, k)
Binom(n, k) == IF k < 0 \/ k > n THEN 0 ELSE Fact(n) \div (Fact(k) * Fact(n - k))

\* C17: index_generator, for nid >= 1 and dim >= 0, ends, and when it has
\* ended it has yielded every nid-tuple over [sindex, sindex + dim - 1] once,
\* in strictly increasing lexicographic order, dim^nid tuples in all, and
\* the store is as it was.
C17_FullRange ==
    /\ <>(op.name \in Generators /\ op.done)
    /\ [](Ended("index_generator") =>
             /\ Range(op.out) = Tuples(a.nid, IndexValues(a))
             /\ \A n \in 1 .. (Len(op.out) - 1) : LexLess(op.out[n], op.out[n + 1])
             /\ Len(op.out) = Pow(Dim(a), a.nid)
             /\ a = op.store)

\* the 27 index triples over [1, 3], all yielded
C17_Witness ==
    /\ Ended("index_generator")
    /\ a.nid = 3
    /\ Dim(a) = 3
    /\ a.sindex = 1
    /\ Len(op.out) = 27
    /\ op.out[27] = <<3, 3, 3>>

\* C18: when non_redundant_index_generator has ended it has yielded
\* C(dim + nid - 1, nid) distinct tuples on a fully symmetric store and
\* C(dim, nid) distinct tuples, none when nid > dim, on a fully
\* antisymmetric one.
C18_CanonicalCount ==
    Ended("non_redundant_index_generator") =>
        /\ a.cls = "CompFullySym" =>
               /\ Len(op.out) = Binom(Dim(a) + a.nid - 1, a.nid)
               /\ Cardinality(Range(op.out)) = Len(op.out)
        /\ a.cls = "CompFullyAntiSym" =>
               /\ Len(op.out) = Binom(Dim(a), a.nid)
               /\ Cardinality(Range(op.out)) = Len(op.out)
               /\ a.nid > Dim(a) => op.out = <<>>

\* the 10 canonical index triples of a fully symmetric store over a frame
\* of length 3
C18_Witness ==
    /\ Ended("non_redundant_index_generator")
    /\ a.cls = "CompFullySym"
    /\ a.nid = 3
    /\ Dim(a) = 3
    /\ Len(op.out) = 10
    /\ Len(op.out) < Pow(Dim(a), a.nid)

-----------------------------------------------------------------------------
(* Properties of addition across symmetry variants (Spec) *)

\* the groups of a list, as sets of positions
GroupSets(groups) == {Range(groups[g]) : g \in DOMAIN groups}

\* the pairwise intersections, of size 2 at least, of the groups of two lists
Intersections(gs, hs) ==
    {c \in {g \cap h : g \in GroupSets(gs), h \in GroupSets(hs)} : Cardinality(c) >= 2}

\* x + y keeps the intersections of the groups and is pointwise
PointwiseSum(x, y, s) ==
    /\ s.err = ""
    /\ GroupSets(s.st.sym) = Intersections(x.sym, y.sym)
    /\ GroupSets(s.st.antisym) = Intersections(x.antisym, y.antisym)
    /\ (s.st.sym = <<>> /\ s.st.antisym = <<>>) => s.st.cls = "Components"
    /\ \A i \in ValidArgs(x) :
           getitem(s.st, i, "tuple") = OkVal(RAdd(x.ring, Get(x, i), Get(y, i)))

\* C21: for all stores x, y with the same frame, nid and start index,
\* x + y is a store whose symmetric (antisymmetric) groups are the pairwise
\* intersections of size >= 2 of the symmetric (antisymmetric) groups of x
\* and y, a plain store if there is none, and (x + y).get(i) is
\* x.get(i) + y.get(i) at every valid index tuple i.
C21_PointwiseAdd ==
    \A x \in Stores : \A y \in Stores :
        ~Incompatible(x, y) => PointwiseSum(x, y, add(x, y, 4))

-----------------------------------------------------------------------------
(* Properties of the symmetries of a tensor product (Spec) *)

\* a group with a position on each side of the seam at n
CrossesSeam(g, n) == (\E p \in Range(g) : p < n) /\ (\E p \in Range(g) : p >= n)

\* the groups of x followed by the groups of y shifted by x.nid
SeamGroups(xgroups, ygroups, n) ==
    xgroups \o [g \in DOMAIN ygroups |-> [k \in DOMAIN ygroups[g] |-> ygroups[g][k] + n]]

\* C22 as stated: for all stores x, y the groups of x * y are the groups of x
\* together with the groups of y shifted by x.nid, and no group holds a
\* position below x.nid and a position from x.nid on.
C22_AsStated ==
    (op.name = "mul" /\ ret.err = "") =>
        /\ r.sym = SeamGroups(Reg(op.x).sym, Reg(op.y).sym, Reg(op.x).nid)
        /\ r.antisym = SeamGroups(Reg(op.x).antisym, Reg(op.y).antisym, Reg(op.x).nid)
        /\ \A g \in Range(r.sym) \cup Range(r.antisym) : ~CrossesSeam(g, Reg(op.x).nid)

\* x * x for a plain single-index store x
SelfProduct(x, y) ==
    x.oid = y.oid /\ x.cls = "Components" /\ x.nid = 1

\* C22: the groups of x * y are the groups of x together with the groups of
\* y shifted by x.nid, none of them across the seam, unless x and y are one
\* and the same plain single-index store: then the product is fully
\* symmetric, with the one group (0, 1).
C22_SeamSymmetries ==
    (op.name = "mul" /\ ret.err = "") =>
        IF SelfProduct(Reg(op.x), Reg(op.y))
        THEN /\ r.cls = "CompFullySym"
             /\ r.sym = <<<<0, 1>>>>
             /\ r.antisym = <<>>
        ELSE /\ r.sym = SeamGroups(Reg(op.x).sym, Reg(op.y).sym, Reg(op.x).nid)
             /\ r.antisym =
                    SeamGroups(Reg(op.x).antisym, Reg(op.y).antisym, Reg(op.x).nid)
             /\ \A g \in Range(r.sym) \cup Range(r.antisym) :
                    ~CrossesSeam(g, Reg(op.x).nid)

\* a product of two stores with groups, that of the right operand shifted
C22_Witness ==
    /\ op.name = "mul"
    /\ ret.err = ""
    /\ Reg(op.x).sym # <<>>
    /\ Reg(op.y).antisym # <<>>
    /\ r.sym = Reg(op.x).sym
    /\ r.antisym # Reg(op.y).antisym
    /\ r.comp # EmptyComp

-----------------------------------------------------------------------------
(* Properties of the values and groups of symmetrize and antisymmetrize    *)
(* (Spec)                                                                  *)

\* the permutations of 1 .. n
Perms(n) == {f \in [1 .. n -> 1 .. n] : \A i, j \in 1 .. n : f[i] = f[j] => i = j}

\* t with the value at position pos[k] moved to position pos[f[k]]
Permuted(t, pos, f) ==
    [q \in DOMAIN t |->
        IF \E k \in DOMAIN pos : pos[f[k]] + 1 = q
        THEN t[pos[CHOOSE k \in DOMAIN pos : pos[f[k]] + 1 = q] + 1]
        ELSE t[q]]

RECURSIVE PermSum(_, _, _, _, _)
\* the sum over the permutations f in P of x.get(t permuted by f), each term
\* with the sign of f when signed
PermSum(x, pos, t, signed, P) ==
    IF P = {} THEN 0
    ELSE LET f == CHOOSE g \in P : TRUE
             v == Get(x, Permuted(t, pos, f))
         IN  RAdd(x.ring,
                  IF signed THEN Signed(x.ring, Signature(f), v) ELSE v,
                  PermSum(x, pos, t, signed, P \ {f}))

\* n! times the value read at t in res is the (signed) sum over the
\* permutations of the positions pos of the values of x
AveragedAt(x, posarg, res, t, signed) ==
    LET pos == PosList(x, posarg)
    IN  RMul(x.ring, Coerce(x.ring, Fact(Len(pos))), Get(res, t)) =
            PermSum(x, pos, t, signed, Perms(Len(pos)))

\* the groups of st of the kind the operation creates, and of the other kind
SameGroups(st, name) == IF name = "symmetrize" THEN st.sym ELSE st.antisym

OtherGroups(st, name) == IF name = "symmetrize" THEN st.antisym ELSE st.sym

\* a group of the same kind already covers pos: the result is a copy
CopyPath(st, name, posarg) ==
    \E g \in GroupSets(SameGroups(st, name)) : Range(PosList(st, posarg)) \subseteq g

\* two positions of pos lie in a group of the other kind: the result is zero
ZeroPath(st, name, posarg) ==
    TwoInOneGroup(PosList(st, posarg), OtherGroups(st, name))

\* C23: for every store x and every admissible pos that hits neither the
\* copy nor the zero fast path, x.symmetrize(pos) returns a store that reads,
\* at each of its canonical indices c, 1/n! times the sum over the
\* permutations of the positions pos of x.get at the permuted c, and
\* x.antisymmetrize(pos) the same sum with the signs of the permutations.
C23_AveragedValues ==
    (/\ op.name \in {"symmetrize", "antisymmetrize"}
     /\ Admissible(Reg(op.x), op.pos)
     /\ ~CopyPath(Reg(op.x), op.name, op.pos)
     /\ ~ZeroPath(Reg(op.x), op.name, op.pos)) =>
        /\ ret.err = ""
        /\ \A c \in ValidArgs(Reg(op.x)) :
               CanonKey(r, c) = c =>
                   AveragedAt(Reg(op.x), op.pos, r, c, op.name = "antisymmetrize")

\* C24: on a store with symmetries, symmetrize(pos) with a result that is
\* not identically zero returns a store whose antisymmetric groups are those
\* of the receiver without their position shared with pos (dropped when
\* fewer than 2 positions remain), whose symmetric groups are pos merged
\* with the symmetric groups that share a position with it and the other
\* symmetric groups unchanged, and which is fully symmetric when the merged
\* group spans all positions; antisymmetrize(pos) is the mirror image.
C24_DerivedSymmetries ==
    (/\ op.name \in {"symmetrize", "antisymmetrize"}
     /\ IsWithSym(Reg(op.x))
     /\ Admissible(Reg(op.x), op.pos)
     /\ ~ZeroPath(Reg(op.x), op.name, op.pos)) =>
        LET x == Reg(op.x)
            pos_set == Range(PosList(x, op.pos))
            same == GroupSets(SameGroups(x, op.name))
            others == GroupSets(OtherGroups(x, op.name))
            merged == pos_set \cup UNION {g \in same : g \cap pos_set # {}}
        IN  /\ ret.err = ""
            /\ GroupSets(OtherGroups(r, op.name)) =
                   {g \ pos_set : g \in {h \in others : Cardinality(h \ pos_set) >= 2}}
            /\ GroupSets(SameGroups(r, op.name)) =
                   {merged} \cup {g \in same : g \cap pos_set = {}}
            /\ merged = 0 .. (x.nid - 1) =>
                   r.cls = (IF op.name = "symmetrize" THEN "CompFullySym"
                            ELSE "CompFullyAntiSym")

\* C29: for every store x with symmetries, every admissible pos and every
\* valid index tuple t, canonical or not, x.symmetrize(pos).get(t) is 1/n!
\* times the sum over the permutations of the positions pos of x.get at the
\* permuted t, and x.antisymmetrize(pos).get(t) the signed sum.
C29_AveragedEverywhere ==
    (/\ op.name \in {"symmetrize", "antisymmetrize"}
     /\ IsWithSym(Reg(op.x))
     /\ Admissible(Reg(op.x), op.pos)) =>
        /\ ret.err = ""
        /\ \A t \in ValidArgs(Reg(op.x)) :
               AveragedAt(Reg(op.x), op.pos, r, t, op.name = "antisymmetrize")

-----------------------------------------------------------------------------
(* The canonical index range and canonicalization (SpecGen) *)

\* t is its own canonical form, with sign +1
IsCanonical(st, t) ==
    IF IsWithSym(st) THEN ordered_indices(st, t) = IndexResult("", 1, t) ELSE TRUE

\* C25: when non_redundant_index_generator has ended it has yielded exactly
\* the valid index tuples t that _ordered_indices maps to (+1, t), each once
\* and in increasing lexicographic order; every valid index tuple with a
\* non-zero sign has its canonical form among them; and on a store without
\* symmetry the tuples are those of index_generator.
C25_CanonicalRange ==
    Ended("non_redundant_index_generator") =>
        /\ Range(op.out) = {t \in ValidArgs(a) : IsCanonical(a, t)}
        /\ \A n \in 1 .. (Len(op.out) - 1) : LexLess(op.out[n], op.out[n + 1])
        /\ IsWithSym(a) =>
               \A t \in ValidArgs(a) :
                   ordered_indices(a, t).sign # 0 =>
                       ordered_indices(a, t).ind \in Range(op.out)
        /\ ~IsWithSym(a) => op.out = index_generator(a)

\* a store with a symmetric and an antisymmetric group: some tuples are
\* skipped, and a tuple with sign -1 has its canonical form among the
\* yielded ones
C25_Witness ==
    /\ Ended("non_redundant_index_generator")
    /\ a.sym # <<>>
    /\ a.antisym # <<>>
    /\ op.out # <<>>
    /\ Len(op.out) < Cardinality(ValidArgs(a))
    /\ \E t \in ValidArgs(a) :
           /\ ordered_indices(a, t).sign = 0 - 1
           /\ ordered_indices(a, t).ind \in Range(op.out)

-----------------------------------------------------------------------------
(* Properties of equality and of is_zero (Spec) *)

\* every value the dictionary holds is the ring zero
AllValuesZero(st) == \A k \in DOMAIN st.comp : st.comp[k] = 0

\* the stores of a behaviour, and the same stores with an output formatter
EqStores == Stores \cup {[st EXCEPT !.fmt = "str"] : st \in Stores}

\* C26: for any two stores x, y, x == y is a truth value, true exactly when
\* x and y have the same frame, nid, start index and formatter and every
\* value of x - y is zero; is_zero() is true exactly when every value the
\* dictionary holds is the ring zero, zero-valued entries included; x == 0
\* is x.is_zero() and x == n for a number n # 0 is an error.
C26_Equality ==
    /\ \A x \in EqStores : \A y \in EqStores :
           LET e == eq(x, y, 4)
               d == sub(x, y, 6)
           IN  /\ e.err = ""
               /\ e.kind = "bool"
               /\ (e.val = 1) <=>
                      /\ x.frame = y.frame
                      /\ x.nid = y.nid
                      /\ x.sindex = y.sindex
                      /\ x.fmt = y.fmt
                      /\ d.err = ""
                      /\ AllValuesZero(d.st)
    /\ \A st \in Stores : is_zero(st) <=> AllValuesZero(st)
    /\ op.name = "eq_number" =>
           IF op.s = 0 THEN ret = OkBool(AllValuesZero(Reg(op.x)))
           ELSE ret.err = "TypeError"

\* a store that holds a zero-valued entry and nothing else, found zero,
\* next to two stores that hold entries and differ
C26_Witness ==
    /\ r.cls # "None"
    /\ r.comp # EmptyComp
    /\ is_zero(r)
    /\ a.comp # EmptyComp
    /\ eq(a, b, 4) = OkBool(FALSE)
    /\ eq(a, a, 4) = OkBool(TRUE)
    /\ eq(a, [a EXCEPT !.fmt = "str"], 4) = OkBool(FALSE)

-----------------------------------------------------------------------------
(* Invariants of the stores an operation returns (Spec) *)

\* C27: in every store with symmetries, constructed, written to, or returned
\* by an operation, every key of the dictionary is a canonical index tuple
\* under the groups of that store.
C27_CanonicalKeys ==
    \A st \in Stores :
        IsWithSym(st) => \A k \in DOMAIN st.comp : CanonKey(st, k) = k

\* C30: every store returned by an operation has valid groups: each with
\* at least 2 positions, all in [0, nid-1], none in two groups; a store of
\* the plain class has no group.
C30_ValidGroups ==
    r.cls # "None" =>
        /\ ~BadSpec(r.nid, r.sym, r.antisym)
        /\ r.cls = "Components" => (r.sym = <<>> /\ r.antisym = <<>>)
        /\ r.cls = "CompFullySym" => GroupSets(r.sym) = {0 .. (r.nid - 1)}
        /\ r.cls = "CompFullyAntiSym" => GroupSets(r.antisym) = {0 .. (r.nid - 1)}

\* a swap that moved the groups of a store that holds an entry
C30_Witness ==
    /\ op.name = "swap_adjacent_indices"
    /\ ret.err = ""
    /\ r.comp # EmptyComp
    /\ r.antisym # <<>>
    /\ r.antisym # Reg(op.x).antisym

-----------------------------------------------------------------------------
(* is_zero after a tensor product and writes (SpecZero, over Z/5) *)

\* C28: over a ring that is an integral domain, is_zero() of a store is
\* true exactly when the read at every valid index tuple gives the ring
\* zero.
C28_IsZeroAgrees ==
    \A st \in Stores :
        is_zero(st) <=> (\A i \in ValidArgs(st) : Get(st, i) = 0)

====
